---- MODULE Spec2Model ----
(***************************************************************************)
(* Task-chain execution engine of the orchestrator:                        *)
(*   TaskChainExecutionService.runTaskChain   (task-chain-execution)       *)
(*   TaskExecutionService.executeTaskChain    (task-execution)             *)
(* Every await of the two async functions is a suspension point; an action *)
(* is the synchronous code run when the awaited collaborator answers.      *)
(***************************************************************************)
EXTENDS Integers, Sequences, FiniteSets, TLC

(***************************************************************************)
(* Bounds                                                                  *)
(***************************************************************************)
MaxTasks == 3

(***************************************************************************)
(* Optional values: undefined/null is <<>>, a present value v is <<v>>.    *)
(***************************************************************************)
Undefined == <<>>
Some(v) == <<v>>
IsDefined(o) == o # <<>>
Val(o) == o[1]

(***************************************************************************)
(* Strings the code inspects character by character are sequences of       *)
(* one-character strings.                                                  *)
(***************************************************************************)
UpperChars == <<"A","B","C","D","E","F","G","H","I","J","K","L","M",
                "N","O","P","Q","R","S","T","U","V","W","X","Y","Z">>
LowerChars == <<"a","b","c","d","e","f","g","h","i","j","k","l","m",
                "n","o","p","q","r","s","t","u","v","w","x","y","z">>
WhiteSpace == {" ", "\t", "\n"}

ToLowerChar(c) ==
    IF \E k \in DOMAIN UpperChars : UpperChars[k] = c
    THEN LowerChars[CHOOSE k \in DOMAIN UpperChars : UpperChars[k] = c]
    ELSE c

ToLowerCase(s) == [k \in DOMAIN s |-> ToLowerChar(s[k])]

RECURSIVE TrimStart(_)
TrimStart(s) ==
    IF s # <<>> /\ Head(s) \in WhiteSpace THEN TrimStart(Tail(s)) ELSE s

RECURSIVE TrimEnd(_)
TrimEnd(s) ==
    IF s # <<>> /\ s[Len(s)] \in WhiteSpace
    THEN TrimEnd(SubSeq(s, 1, Len(s) - 1)) ELSE s

Trim(s) == TrimEnd(TrimStart(s))

(***************************************************************************)
(* TaskIoType and its normalisation                                        *)
(***************************************************************************)
TaskIoType == {"JSON", "png", "noInput", "noOutput"}

\* normalizeIoType comparing the hint as written
normalizeIoTypeCaseSensitive(value) ==
    IF ~IsDefined(value) \/ Val(value) = <<>> THEN Undefined
    ELSE LET normalized == Trim(Val(value)) IN
         IF normalized = <<"j","s","o","n">> THEN Some("JSON")
         ELSE IF normalized = <<"p","n","g">> THEN Some("png")
         ELSE IF normalized \in { <<"n","o","i","n","p","u","t">>,
                                  <<"n","o","-","i","n","p","u","t">> }
              THEN Some("noInput")
         ELSE IF normalized \in { <<"n","o","o","u","t","p","u","t">>,
                                  <<"n","o","-","o","u","t","p","u","t">> }
              THEN Some("noOutput")
         ELSE Undefined

\* value is an optional string; the result is an optional TaskIoType
normalizeIoType(value) ==
    IF ~IsDefined(value) \/ Val(value) = <<>> THEN Undefined
    ELSE LET normalized == Trim(ToLowerCase(Val(value))) IN
         IF normalized = <<"j","s","o","n">> THEN Some("JSON")
         ELSE IF normalized = <<"p","n","g">> THEN Some("png")
         ELSE IF normalized \in { <<"n","o","i","n","p","u","t">>,
                                  <<"n","o","-","i","n","p","u","t">> }
              THEN Some("noInput")
         ELSE IF normalized \in { <<"n","o","o","u","t","p","u","t">>,
                                  <<"n","o","-","o","u","t","p","u","t">> }
              THEN Some("noOutput")
         ELSE Undefined

\* resolveIoType preferring the workflow-declared type to the task hint
resolveIoTypeDescriptionFirst(taskValue, descriptionValue, fallback) ==
    IF IsDefined(descriptionValue) THEN Val(descriptionValue)
    ELSE IF IsDefined(normalizeIoType(taskValue)) THEN Val(normalizeIoType(taskValue))
    ELSE fallback

\* normalizeIoType(taskValue) ?? descriptionValue ?? fallback
resolveIoType(taskValue, descriptionValue, fallback) ==
    IF IsDefined(normalizeIoType(taskValue)) THEN Val(normalizeIoType(taskValue))
    ELSE IF IsDefined(descriptionValue) THEN Val(descriptionValue)
    ELSE fallback

(***************************************************************************)
(* Node execution data: an item has an optional json and an optional       *)
(* binary part; a JSON object is a record [key, value].                    *)
(***************************************************************************)
Item(json, binary) == [json |-> json, binary |-> binary]

\* data is an optional array of items
extractPrimaryJson(data) ==
    IF ~IsDefined(data) \/ Len(Val(data)) = 0 THEN Undefined
    ELSE LET items == Val(data)
             hits == {k \in DOMAIN items : IsDefined(items[k].json)}
         IN IF hits = {} THEN Undefined
            ELSE LET first == CHOOSE k \in hits : \A m \in hits : k <= m
                 IN items[first].json

EmptyObject == [key |-> "", value |-> <<>>]

(***************************************************************************)
(* Workflows: a sequence of nodes [name, type, path] and the active flag.  *)
(* path is the optional parameters.path of the node.                       *)
(***************************************************************************)
ManualTriggerType == "n8n-nodes-base.manualTrigger"
WebhookType == "n8n-nodes-base.webhook"
RespondType == "n8n-nodes-base.respondToWebhook"
SetType == "n8n-nodes-base.set"
ScheduleType == "n8n-nodes-base.scheduleTrigger"

Node(name, type, path) == [name |-> name, type |-> type, path |-> path]

\* The four listed trigger types, and the types of the model whose
\* lower-cased name includes 'trigger'.
TriggerTypes == { ManualTriggerType, WebhookType,
                  "n8n-nodes-base.webhookTrigger",
                  "@n8n/n8n-nodes-langchain.manualChatTrigger" }
TypeIncludesTrigger(type) ==
    type \in { ManualTriggerType, ScheduleType, "n8n-nodes-base.webhookTrigger",
               "@n8n/n8n-nodes-langchain.manualChatTrigger" }
IsTriggerNode(node) == node.type \in TriggerTypes \/ TypeIncludesTrigger(node.type)

\* Names of the model that include 'task' or 'return' when lower-cased.
NameIncludesTaskOrReturn(name) == name \in {"Return to Task Manager"}
TypeIncludesTask(type) == FALSE

FirstIndex(seq, P(_)) ==
    LET hits == {k \in DOMAIN seq : P(seq[k])}
    IN IF hits = {} THEN 0 ELSE CHOOSE k \in hits : \A m \in hits : k <= m

\* optional node
findTriggerNode(workflow) ==
    LET k == FirstIndex(workflow.nodes, IsTriggerNode)
    IN IF k = 0 THEN Undefined ELSE Some(workflow.nodes[k])

\* getWebhookInfo answering for a webhook node without a path
getWebhookInfoIgnoresPath(workflow) ==
    LET IsWebhook(n) == n.type = WebhookType
        k == FirstIndex(workflow.nodes, IsWebhook)
    IN IF k = 0 THEN Undefined
       ELSE Some([path |-> IF IsDefined(workflow.nodes[k].path)
                           THEN Val(workflow.nodes[k].path) ELSE <<>>])

\* optional webhook info: present iff the first webhook node has a path
getWebhookInfo(workflow) ==
    LET IsWebhook(n) == n.type = WebhookType
        k == FirstIndex(workflow.nodes, IsWebhook)
    IN IF k = 0 THEN Undefined
       ELSE IF ~IsDefined(workflow.nodes[k].path) \/ Val(workflow.nodes[k].path) = <<>>
            THEN Undefined
            ELSE Some([path |-> Val(workflow.nodes[k].path)])

getRespondNodes(workflow) == SelectSeq(workflow.nodes, LAMBDA n : n.type = RespondType)

(***************************************************************************)
(* A completed run: resultError, the optional lastNodeExecuted, and        *)
(* runData as the key-ordered sequence of [name, runs]; a run of a node is *)
(* its data.main, a sequence of branches, a branch a sequence of items.    *)
(***************************************************************************)
NodeRuns(run, nodeName) ==
    LET k == FirstIndex(run.runData, LAMBDA e : e.name = nodeName)
    IN IF k = 0 THEN <<>> ELSE run.runData[k].runs

\* optional array of items
getNodeRunOutput(run, nodeName) ==
    LET nodeRuns == NodeRuns(run, nodeName) IN
    IF Len(nodeRuns) = 0 THEN Undefined
    ELSE LET mainOutput == nodeRuns[Len(nodeRuns)] IN
         IF Len(mainOutput) = 0 THEN Undefined ELSE Some(mainOutput[1])

HasLength(data) == IsDefined(data) /\ Len(Val(data)) > 0

\* WorkflowHelpers.getDataLastExecutedNodeData(run)?.data?.main, optional
getDataLastExecutedNodeData(run) ==
    IF ~IsDefined(run.lastNodeExecuted) THEN Undefined
    ELSE LET nodeRuns == NodeRuns(run, Val(run.lastNodeExecuted)) IN
         IF Len(nodeRuns) = 0 THEN Undefined ELSE Some(nodeRuns[Len(nodeRuns)])

\* first element of candidates (node names) whose run output is non-empty
RECURSIVE FirstOutput(_, _)
FirstOutput(run, names) ==
    IF names = <<>> THEN Undefined
    ELSE IF HasLength(getNodeRunOutput(run, Head(names)))
         THEN getNodeRunOutput(run, Head(names))
         ELSE FirstOutput(run, Tail(names))

NodeNames(nodes) == [k \in DOMAIN nodes |-> nodes[k].name]
Reverse(seq) == [k \in DOMAIN seq |-> seq[Len(seq) + 1 - k]]

\* extractRespondNodeOutput asking the last executed node first
extractRespondNodeOutputLastFirst(run, workflow) ==
    LET respond == FirstOutput(run, NodeNames(getRespondNodes(workflow)))
        last == IF IsDefined(run.lastNodeExecuted)
                THEN FirstOutput(run, run.lastNodeExecuted) ELSE Undefined
    IN IF IsDefined(last) THEN last ELSE respond

extractRespondNodeOutput(run, workflow) ==
    LET respond == FirstOutput(run, NodeNames(getRespondNodes(workflow)))
        taskManagerNodes ==
            SelectSeq(workflow.nodes,
                      LAMBDA n : NameIncludesTaskOrReturn(n.name) \/ TypeIncludesTask(n.type))
        taskManager == FirstOutput(run, NodeNames(taskManagerNodes))
        last == IF IsDefined(run.lastNodeExecuted)
                THEN FirstOutput(run, run.lastNodeExecuted) ELSE Undefined
        triggerNodeNames ==
            {workflow.nodes[k].name : k \in {m \in DOMAIN workflow.nodes :
                                              IsTriggerNode(workflow.nodes[m])}}
        executedNodeNames ==
            Reverse(SelectSeq(NodeNames(run.runData), LAMBDA n : n \notin triggerNodeNames))
        executed == FirstOutput(run, executedNodeNames)
        mainOutput == getDataLastExecutedNodeData(run)
    IN IF IsDefined(respond) THEN respond
       ELSE IF IsDefined(taskManager) THEN taskManager
       ELSE IF IsDefined(last) THEN last
       ELSE IF IsDefined(executed) THEN executed
       ELSE IF ~IsDefined(mainOutput) \/ Len(Val(mainOutput)) = 0 THEN Undefined
       ELSE Some(Val(mainOutput)[1])

(***************************************************************************)
(* Input preparation of runTaskChain                                       *)
(***************************************************************************)
ErrPrevNoJson == "Previous task did not return JSON data to pass forward"
ErrPromptRequired == "User prompt is required for the first JSON-input workflow"
ErrUnresolvedJson == "Unable to resolve JSON input payload for task"
ErrPrevNoBinary == "Previous task did not return PNG/binary data"

Prepared(inputData, inputPresentation) ==
    [threw |-> FALSE, error |-> "",
     inputData |-> inputData, inputPresentation |-> inputPresentation]
PrepareThrows(message) ==
    [threw |-> TRUE, error |-> message,
     inputData |-> Undefined, inputPresentation |-> Undefined]

prepareInputData(inputType, isFirstTask, prompt, previousOutput) ==
    IF inputType = "noInput" THEN Prepared(Undefined, Undefined)
    ELSE IF inputType = "JSON" THEN
        IF HasLength(previousOutput) THEN
            LET payload == extractPrimaryJson(previousOutput) IN
            IF ~IsDefined(payload) THEN PrepareThrows(ErrPrevNoJson)
            ELSE Prepared(Some(<<Item(payload, Undefined)>>), payload)
        ELSE IF isFirstTask THEN
            IF ~IsDefined(prompt) \/ Trim(Val(prompt)) = <<>>
            THEN PrepareThrows(ErrPromptRequired)
            ELSE LET payload == Some([key |-> "prompt", value |-> Val(prompt)])
                 IN Prepared(Some(<<Item(payload, Undefined)>>), payload)
        ELSE PrepareThrows(ErrUnresolvedJson)
    ELSE IF inputType = "png" THEN
        LET items == IF IsDefined(previousOutput) THEN Val(previousOutput) ELSE <<>>
            k == FirstIndex(items, LAMBDA it : IsDefined(it.binary))
        IN IF k = 0 THEN PrepareThrows(ErrPrevNoBinary)
           ELSE LET json == IF IsDefined(items[k].json) THEN items[k].json
                            ELSE Some(EmptyObject)
                IN Prepared(Some(<<Item(json, items[k].binary)>>), json)
    ELSE Prepared(Undefined, Undefined)

(***************************************************************************)
(* Inputs of a chain run and answers of the collaborators                  *)
(***************************************************************************)
WorkflowIds == {"wfA", "wfB"}

\* type hints as the planner writes them
HintPng == Some(<<"P","N","G">>)
HintNoOutput == Some(<<"n","o","-","o","u","t","p","u","t">>)

PlanItem(workflowId, input, output) ==
    [workflowId |-> workflowId, input |-> input, output |-> output]

TaskPlanItem ==
    { PlanItem("wfA", Undefined, Undefined),
      PlanItem("wfA", HintPng, HintNoOutput),
      PlanItem("wfB", Undefined, Undefined) }

TaskLists == UNION { [1..n -> TaskPlanItem] : n \in 0..MaxTasks }

Prompts == { Some(<<" ">>), Some(<<"h","i">>) }

\* getWorkflowDescriptions: per workflow id an optional workflowDescription
\* with the declared inputType and outputType strings
NoDescription == Undefined
DeclaredJsonInNoOutput ==
    Some([inputType |-> Some(<<"j","s","o","n">>),
          outputType |-> Some(<<"n","o","O","u","t","p","u","t">>)])
DescriptionAnswers ==
    { [w \in WorkflowIds |-> IF w = "wfB" THEN DeclaredJsonInNoOutput ELSE NoDescription] }

\* findWorkflowForUser answers
WfManual ==
    [nodes |-> << Node("Start", ManualTriggerType, Undefined),
                  Node("Work", SetType, Undefined),
                  Node("Respond", RespondType, Undefined) >>,
     active |-> FALSE]
WfNoTrigger ==
    [nodes |-> << Node("Work", SetType, Undefined),
                  Node("Respond", RespondType, Undefined) >>,
     active |-> FALSE]
WfWebhook(active) ==
    [nodes |-> << Node("Hook", WebhookType, Some(<<"p">>)),
                  Node("Respond", RespondType, Undefined) >>,
     active |-> active]
WfWebhookNoPath ==
    [nodes |-> << Node("Hook", WebhookType, Undefined),
                  Node("Respond", RespondType, Undefined) >>,
     active |-> TRUE]
Workflows == { WfManual, WfNoTrigger, WfWebhook(TRUE), WfWebhook(FALSE), WfWebhookNoPath }

\* the data a run of the task with 0-based index i produces: unique per task
OutVal(i) == [k \in 1..(i + 1) |-> "x"]
JsonOut(i) == [key |-> "result", value |-> OutVal(i)]
OutputItems(i) ==
    { << Item(Some(JsonOut(i)), Undefined) >>,
      << Item(Undefined, Some(OutVal(i))) >> }

RunNothing == [resultError |-> FALSE, lastNodeExecuted |-> Undefined, runData |-> <<>>]
RunError == [resultError |-> TRUE, lastNodeExecuted |-> Undefined, runData |-> <<>>]
RunEmptyBranch ==
    [resultError |-> FALSE, lastNodeExecuted |-> Some("Work"),
     runData |-> << [name |-> "Work", runs |-> << << <<>> >> >>] >>]
RunRespond(items) ==
    [resultError |-> FALSE, lastNodeExecuted |-> Some("Respond"),
     runData |-> << [name |-> "Work", runs |-> << << <<>> >> >>],
                    [name |-> "Respond", runs |-> << << items >> >>] >>]
\* getPostExecutePromise answers: an optional run
RunAnswers(i) ==
    { Undefined, Some(RunError), Some(RunNothing), Some(RunEmptyBranch) }
      \cup { Some(RunRespond(items)) : items \in OutputItems(i) }

\* fetch answers: transport exception, non-2xx, JSON body (possibly null), text body
WebhookAnswers(i) ==
    { [kind |-> "throws", body |-> Undefined],
      [kind |-> "status", body |-> Undefined],
      [kind |-> "json", body |-> Undefined],
      [kind |-> "json", body |-> Some(JsonOut(i))],
      [kind |-> "text", body |-> Some([key |-> "response", value |-> OutVal(i)])] }

ErrNotFound == "Workflow not found"
ErrMustBeActive == "Workflow must be active to execute via webhook"
ErrStartFailed == "Failed to start execution for workflow"
ErrNoRunData == "Execution did not return any data"
ErrExecutionFailed == "Workflow execution failed"
ErrWebhookStatus == "Webhook returned non-2xx status"
ErrCollaborator == "collaborator error"
ErrEmptyTasks == "Tasks array is required and must not be empty"

(***************************************************************************)
(* State of one runTaskChain invocation                                    *)
(***************************************************************************)
VARIABLES
    pc,                 \* suspension point of runTaskChain
    tasks,              \* params.tasks
    userPrompt,         \* params.userPrompt (optional string)
    results,            \* TaskExecutionResult[]
    previousOutputData, \* optional INodeExecutionData[]
    finalOutput,        \* optional IDataObject
    currentTaskIndex,
    currentWorkflowId,  \* optional
    workflow,           \* the workflow loaded for the running task (optional)
    chainResult,        \* the returned TaskChainResult (optional)
    chainThrown,        \* the error runTaskChain rejected with (optional)
    calls               \* collaborator calls made so far, in order

chainVars == << pc, tasks, userPrompt, results, previousOutputData, finalOutput,
                currentTaskIndex, currentWorkflowId, workflow, chainResult,
                chainThrown, calls >>

\* state of one executeTaskChain invocation
VARIABLES
    legacyIndex,     \* loop variable i
    currentOutput,   \* optional JSON threaded to the next task
    executedTasks,
    inputData,       \* optional JSON prepared for the running task
    progressEvents,  \* progressCallback invocations, in order
    legacyResult     \* the returned TaskChainResult (optional)

legacyVars == << legacyIndex, currentOutput, executedTasks, inputData,
                 progressEvents, legacyResult >>

\* the execute-tasks request around the chain run, and a second chain run
\* suspended while this one runs
VARIABLES
    written,   \* objects the controller wrote to the response stream, in order
    otherRun   \* the local variables of the suspended run

\* the stored orchestrator chats and the chat requests of the users
VARIABLES
    chats,       \* per chat id the optional row [userId, title, messages]
    nextChatId,  \* the id the repository gives to the next new row
    session      \* per user the request in flight or the last response

chatVars == << chats, nextChatId, session >>

\* one application of a pure function of the service
VARIABLES
    ioCall,    \* the function applied
    ioArgs,    \* its arguments
    ioResult   \* its result once applied (optional)

ioVars == << ioCall, ioArgs, ioResult >>

Call(kind, index, seed) == [kind |-> kind, index |-> index, seed |-> seed]

\* NewResult numbering the records from 1
NewResultOneBased(index, task, description) ==
    [index |-> index + 1,
     workflowId |-> task.workflowId,
     status |-> "pending",
     inputType |-> resolveIoType(task.input,
                      IF IsDefined(description)
                      THEN normalizeIoType(Val(description).inputType) ELSE Undefined,
                      "noInput"),
     outputType |-> resolveIoType(task.output,
                      IF IsDefined(description)
                      THEN normalizeIoType(Val(description).outputType) ELSE Undefined,
                      "JSON"),
     started |-> FALSE,
     finished |-> FALSE,
     executionId |-> Undefined,
     inputPayload |-> Undefined,
     outputPayload |-> Undefined,
     rawOutput |-> Undefined,
     error |-> Undefined]

NewResult(index, task, description) ==
    [index |-> index,
     workflowId |-> task.workflowId,
     status |-> "pending",
     inputType |-> resolveIoType(task.input,
                      IF IsDefined(description)
                      THEN normalizeIoType(Val(description).inputType) ELSE Undefined,
                      "noInput"),
     outputType |-> resolveIoType(task.output,
                      IF IsDefined(description)
                      THEN normalizeIoType(Val(description).outputType) ELSE Undefined,
                      "JSON"),
     started |-> FALSE,
     finished |-> FALSE,
     executionId |-> Undefined,
     inputPayload |-> Undefined,
     outputPayload |-> Undefined,
     rawOutput |-> Undefined,
     error |-> Undefined]

\* the record of the task with 0-based index i
Result(i) == results[i + 1]

\* MarkRunning using the 0-based index as the position
MarkRunningOffByOne(res, i) == [res EXCEPT ![i].status = "running", ![i].started = TRUE]

\* MarkRunning starting every task from i on at once
MarkRunningAll(res, i) ==
    [k \in DOMAIN res |-> IF k >= i + 1
                          THEN [res[k] EXCEPT !.status = "running", !.started = TRUE]
                          ELSE res[k]]

\* loop head up to the await of loadWorkflow: mark task i running
MarkRunning(res, i) == [res EXCEPT ![i + 1].status = "running", ![i + 1].started = TRUE]

\* FailTask pointing failedTask at the first record
FailTaskWrongPointer(res, message) ==
    LET i == currentTaskIndex IN
    /\ results' = [res EXCEPT ![i + 1].status = "failed",
                              ![i + 1].finished = TRUE,
                              ![i + 1].error = Some(message)]
    /\ chainResult' = Some([success |-> FALSE,
                            progress |-> [currentTaskIndex |-> currentTaskIndex,
                                          totalTasks |-> Len(tasks),
                                          currentWorkflowId |-> currentWorkflowId],
                            failedTask |-> Some(0),
                            error |-> Some(message),
                            finalOutput |-> finalOutput])
    /\ pc' = "done"
    /\ workflow' = Undefined
    /\ UNCHANGED << previousOutputData, finalOutput, currentTaskIndex, currentWorkflowId,
                    calls >>

\* FailTask going on with the next task instead of returning
FailTaskContinues(res, message) ==
    LET i == currentTaskIndex
        failed == [res EXCEPT ![i + 1].status = "failed",
                              ![i + 1].finished = TRUE,
                              ![i + 1].error = Some(message)]
    IN
    /\ workflow' = Undefined
    /\ UNCHANGED << previousOutputData, finalOutput >>
    /\ IF i + 1 < Len(tasks)
       THEN /\ results' = [failed EXCEPT ![i + 2].status = "running",
                                         ![i + 2].started = TRUE]
            /\ currentTaskIndex' = i + 1
            /\ currentWorkflowId' = Some(res[i + 2].workflowId)
            /\ calls' = Append(calls, Call("findWorkflowForUser", i + 1, Undefined))
            /\ pc' = "loadWorkflow"
            /\ UNCHANGED chainResult
       ELSE /\ results' = failed
            /\ chainResult' = Some([success |-> FALSE,
                                    progress |-> [currentTaskIndex |-> currentTaskIndex,
                                                  totalTasks |-> Len(tasks),
                                                  currentWorkflowId |-> currentWorkflowId],
                                    failedTask |-> Some(i),
                                    error |-> Some(message),
                                    finalOutput |-> finalOutput])
            /\ pc' = "done"
            /\ UNCHANGED << currentTaskIndex, currentWorkflowId, calls >>

\* FailTask reporting the chain as successful
FailTaskReportsSuccess(res, message) ==
    LET i == currentTaskIndex IN
    /\ results' = [res EXCEPT ![i + 1].status = "failed",
                              ![i + 1].finished = TRUE,
                              ![i + 1].error = Some(message)]
    /\ chainResult' = Some([success |-> TRUE,
                            progress |-> [currentTaskIndex |-> currentTaskIndex,
                                          totalTasks |-> Len(tasks),
                                          currentWorkflowId |-> currentWorkflowId],
                            failedTask |-> Some(i),
                            error |-> Some(message),
                            finalOutput |-> finalOutput])
    /\ pc' = "done"
    /\ workflow' = Undefined
    /\ UNCHANGED << previousOutputData, finalOutput, currentTaskIndex, currentWorkflowId,
                    calls >>

\* FailTask returning the failure without its message
FailTaskDropsMessage(res, message) ==
    LET i == currentTaskIndex IN
    /\ results' = [res EXCEPT ![i + 1].status = "failed",
                              ![i + 1].finished = TRUE,
                              ![i + 1].error = Some(message)]
    /\ chainResult' = Some([success |-> FALSE,
                            progress |-> [currentTaskIndex |-> currentTaskIndex,
                                          totalTasks |-> Len(tasks),
                                          currentWorkflowId |-> currentWorkflowId],
                            failedTask |-> Some(i),
                            error |-> Undefined,
                            finalOutput |-> finalOutput])
    /\ pc' = "done"
    /\ workflow' = Undefined
    /\ UNCHANGED << previousOutputData, finalOutput, currentTaskIndex, currentWorkflowId,
                    calls >>

\* FailTask closing the tasks that were not run
FailTaskStampsRemaining(res, message) ==
    LET i == currentTaskIndex IN
    /\ results' = [k \in DOMAIN res |->
                      IF k = i + 1
                      THEN [res[k] EXCEPT !.status = "failed", !.finished = TRUE,
                                          !.error = Some(message)]
                      ELSE IF k > i + 1 THEN [res[k] EXCEPT !.finished = TRUE]
                      ELSE res[k]]
    /\ chainResult' = Some([success |-> FALSE,
                            progress |-> [currentTaskIndex |-> currentTaskIndex,
                                          totalTasks |-> Len(tasks),
                                          currentWorkflowId |-> currentWorkflowId],
                            failedTask |-> Some(i),
                            error |-> Some(message),
                            finalOutput |-> finalOutput])
    /\ pc' = "done"
    /\ workflow' = Undefined
    /\ UNCHANGED << previousOutputData, finalOutput, currentTaskIndex, currentWorkflowId,
                    calls >>

\* catch block: mark the running task failed and return the failure result
FailTask(res, message) ==
    LET i == currentTaskIndex IN
    /\ results' = [res EXCEPT ![i + 1].status = "failed",
                              ![i + 1].finished = TRUE,
                              ![i + 1].error = Some(message)]
    /\ chainResult' = Some([success |-> FALSE,
                            progress |-> [currentTaskIndex |-> currentTaskIndex,
                                          totalTasks |-> Len(tasks),
                                          currentWorkflowId |-> currentWorkflowId],
                            failedTask |-> Some(i),
                            error |-> Some(message),
                            finalOutput |-> finalOutput])
    /\ pc' = "done"
    /\ workflow' = Undefined
    /\ UNCHANGED << previousOutputData, finalOutput, currentTaskIndex, currentWorkflowId,
                    calls >>

\* NextIteration leaving the loop one task early
NextIterationReturnsEarly(res, newPrevious, newFinal) ==
    LET j == currentTaskIndex + 1 IN
    /\ previousOutputData' = newPrevious
    /\ finalOutput' = newFinal
    /\ workflow' = Undefined
    /\ IF j < Len(tasks) - 1
       THEN /\ results' = MarkRunning(res, j)
            /\ currentTaskIndex' = j
            /\ currentWorkflowId' = Some(res[j + 1].workflowId)
            /\ calls' = Append(calls, Call("findWorkflowForUser", j, Undefined))
            /\ pc' = "loadWorkflow"
            /\ UNCHANGED chainResult
       ELSE /\ results' = res
            /\ chainResult' = Some([success |-> TRUE,
                                    progress |-> [currentTaskIndex |-> Len(tasks),
                                                  totalTasks |-> Len(tasks),
                                                  currentWorkflowId |-> Undefined],
                                    failedTask |-> Undefined,
                                    error |-> Undefined,
                                    finalOutput |-> newFinal])
            /\ pc' = "done"
            /\ UNCHANGED << currentTaskIndex, currentWorkflowId, calls >>

\* end of a successful iteration: the next iteration up to its first await,
\* or the success return after the last task
NextIteration(res, newPrevious, newFinal) ==
    LET j == currentTaskIndex + 1 IN
    /\ previousOutputData' = newPrevious
    /\ finalOutput' = newFinal
    /\ workflow' = Undefined
    /\ IF j < Len(tasks)
       THEN /\ results' = MarkRunning(res, j)
            /\ currentTaskIndex' = j
            /\ currentWorkflowId' = Some(res[j + 1].workflowId)
            /\ calls' = Append(calls, Call("findWorkflowForUser", j, Undefined))
            /\ pc' = "loadWorkflow"
            /\ UNCHANGED chainResult
       ELSE /\ results' = res
            /\ chainResult' = Some([success |-> TRUE,
                                    progress |-> [currentTaskIndex |-> Len(tasks),
                                                  totalTasks |-> Len(tasks),
                                                  currentWorkflowId |-> Undefined],
                                    failedTask |-> Undefined,
                                    error |-> Undefined,
                                    finalOutput |-> newFinal])
            /\ pc' = "done"
            /\ UNCHANGED << currentTaskIndex, currentWorkflowId, calls >>

\* runTaskChain is called: rejects an empty list, else awaits the descriptions
RunTaskChain(taskList, prompt) ==
    /\ pc = "idle"
    /\ tasks' = taskList
    /\ userPrompt' = prompt
    /\ IF Len(taskList) = 0
       THEN /\ chainThrown' = Some(ErrEmptyTasks)
            /\ pc' = "thrown"
            /\ UNCHANGED calls
       ELSE /\ calls' = Append(calls, Call("getWorkflowDescriptions", -1, Undefined))
            /\ pc' = "descriptions"
            /\ UNCHANGED chainThrown
    /\ UNCHANGED << results, previousOutputData, finalOutput, currentTaskIndex,
                    currentWorkflowId, workflow, chainResult >>
    /\ UNCHANGED legacyVars
    /\ UNCHANGED << ioVars, written, otherRun, chatVars >>

\* getWorkflowDescriptions rejects: runTaskChain rejects
DescriptionsThrow ==
    /\ pc = "descriptions"
    /\ chainThrown' = Some(ErrCollaborator)
    /\ pc' = "thrown"
    /\ UNCHANGED << tasks, userPrompt, results, previousOutputData, finalOutput,
                    currentTaskIndex, currentWorkflowId, workflow, chainResult, calls >>
    /\ UNCHANGED legacyVars
    /\ UNCHANGED << ioVars, written, otherRun, chatVars >>

\* getWorkflowDescriptions answers: build the results, start the first task
DescriptionsReturn(descriptions) ==
    /\ pc = "descriptions"
    /\ LET created == [k \in 1..Len(tasks) |->
                          NewResult(k - 1, tasks[k], descriptions[tasks[k].workflowId])]
       IN /\ results' = MarkRunning(created, 0)
          /\ currentTaskIndex' = 0
          /\ currentWorkflowId' = Some(created[1].workflowId)
    /\ calls' = Append(calls, Call("findWorkflowForUser", 0, Undefined))
    /\ pc' = "loadWorkflow"
    /\ UNCHANGED << tasks, userPrompt, previousOutputData, finalOutput, workflow,
                    chainResult, chainThrown >>
    /\ UNCHANGED legacyVars
    /\ UNCHANGED << ioVars, written, otherRun, chatVars >>

\* LoadWorkflowFails reporting every failure of the lookup as an unknown error
LoadWorkflowFailsLosesMessage(message) ==
    /\ pc = "loadWorkflow"
    /\ FailTask(results, ErrCollaborator)
    /\ UNCHANGED << tasks, userPrompt, chainThrown >>
    /\ UNCHANGED legacyVars
    /\ UNCHANGED << ioVars, written, otherRun, chatVars >>

\* findWorkflowForUser rejects, or answers null: the task fails
LoadWorkflowFails(message) ==
    /\ pc = "loadWorkflow"
    /\ FailTask(results, message)
    /\ UNCHANGED << tasks, userPrompt, chainThrown >>
    /\ UNCHANGED legacyVars
    /\ UNCHANGED << ioVars, written, otherRun, chatVars >>

\* seed attached to the manual execution payload
AttachedSeed(wf, seed) ==
    IF IsDefined(seed) /\ IsDefined(findTriggerNode(wf)) THEN seed ELSE Undefined

\* LoadWorkflowReturn calling the webhook of an inactive workflow
LoadWorkflowReturnIgnoresActive(wf) ==
    /\ pc = "loadWorkflow"
    /\ LET i == currentTaskIndex
           prepared == prepareInputData(Result(i).inputType, i = 0, userPrompt,
                                        previousOutputData)
       IN IF IsDefined(getWebhookInfo(wf))
          THEN /\ calls' = Append(calls, Call("fetch", i, Undefined))
               /\ workflow' = Some(wf)
               /\ pc' = "webhook"
               /\ UNCHANGED << results, previousOutputData, finalOutput,
                               currentTaskIndex, currentWorkflowId, chainResult >>
          ELSE IF prepared.threw
               THEN FailTask(results, prepared.error)
               ELSE /\ results' = [results EXCEPT
                                     ![i + 1].inputPayload = prepared.inputPresentation]
                    /\ calls' = Append(calls, Call("executeManually", i,
                                                   AttachedSeed(wf, prepared.inputData)))
                    /\ workflow' = Some(wf)
                    /\ pc' = "executeManually"
                    /\ UNCHANGED << previousOutputData, finalOutput, currentTaskIndex,
                                    currentWorkflowId, chainResult >>
    /\ UNCHANGED << tasks, userPrompt, chainThrown >>
    /\ UNCHANGED legacyVars
    /\ UNCHANGED << ioVars, written, otherRun, chatVars >>

\* findWorkflowForUser answers a workflow: webhook branch, or input
\* preparation and the call of executeManually
LoadWorkflowReturn(wf) ==
    /\ pc = "loadWorkflow"
    /\ LET i == currentTaskIndex
           prepared == prepareInputData(Result(i).inputType, i = 0, userPrompt,
                                        previousOutputData)
       IN IF IsDefined(getWebhookInfo(wf))
          THEN IF ~wf.active
               THEN FailTask(results, ErrMustBeActive)
               ELSE /\ calls' = Append(calls, Call("fetch", i, Undefined))
                    /\ workflow' = Some(wf)
                    /\ pc' = "webhook"
                    /\ UNCHANGED << results, previousOutputData, finalOutput,
                                    currentTaskIndex, currentWorkflowId, chainResult >>
          ELSE IF prepared.threw
               THEN FailTask(results, prepared.error)
               ELSE /\ results' = [results EXCEPT
                                     ![i + 1].inputPayload = prepared.inputPresentation]
                    /\ calls' = Append(calls, Call("executeManually", i,
                                                   AttachedSeed(wf, prepared.inputData)))
                    /\ workflow' = Some(wf)
                    /\ pc' = "executeManually"
                    /\ UNCHANGED << previousOutputData, finalOutput, currentTaskIndex,
                                    currentWorkflowId, chainResult >>
    /\ UNCHANGED << tasks, userPrompt, chainThrown >>
    /\ UNCHANGED legacyVars
    /\ UNCHANGED << ioVars, written, otherRun, chatVars >>

\* ExecuteManuallyFails submitting the workflow a second time before giving up
ExecuteManuallyFailsRetries(message) ==
    /\ pc = "executeManually"
    /\ IF Cardinality({p \in DOMAIN calls : calls[p].kind = "executeManually"
                                            /\ calls[p].index = currentTaskIndex}) < 2
       THEN /\ calls' = Append(calls, calls[Len(calls)])
            /\ UNCHANGED << pc, results, previousOutputData, finalOutput,
                            currentTaskIndex, currentWorkflowId, workflow, chainResult >>
       ELSE FailTask(results, message)
    /\ UNCHANGED << tasks, userPrompt, chainThrown >>
    /\ UNCHANGED legacyVars
    /\ UNCHANGED << ioVars, written, otherRun, chatVars >>

\* executeManually rejects or answers without an executionId
ExecuteManuallyFails(message) ==
    /\ pc = "executeManually"
    /\ FailTask(results, message)
    /\ UNCHANGED << tasks, userPrompt, chainThrown >>
    /\ UNCHANGED legacyVars
    /\ UNCHANGED << ioVars, written, otherRun, chatVars >>

\* executeManually answers an executionId: wait for the completion
ExecuteManuallyReturn ==
    /\ pc = "executeManually"
    /\ calls' = Append(calls, Call("getPostExecutePromise", currentTaskIndex, Undefined))
    /\ pc' = "waiting"
    /\ UNCHANGED << tasks, userPrompt, results, previousOutputData, finalOutput,
                    currentTaskIndex, currentWorkflowId, workflow, chainResult,
                    chainThrown >>
    /\ UNCHANGED legacyVars
    /\ UNCHANGED << ioVars, written, otherRun, chatVars >>

\* PostExecuteThrows leaving the chain suspended when the wait rejects
PostExecuteThrowsHangs ==
    /\ pc = "waiting"
    /\ pc' = "hung"
    /\ UNCHANGED << results, previousOutputData, finalOutput, currentTaskIndex,
                    currentWorkflowId, workflow, chainResult, calls >>
    /\ UNCHANGED << tasks, userPrompt, chainThrown >>
    /\ UNCHANGED legacyVars
    /\ UNCHANGED << ioVars, written, otherRun, chatVars >>

\* getPostExecutePromise rejects
PostExecuteThrows ==
    /\ pc = "waiting"
    /\ FailTask(results, ErrCollaborator)
    /\ UNCHANGED << tasks, userPrompt, chainThrown >>
    /\ UNCHANGED legacyVars
    /\ UNCHANGED << ioVars, written, otherRun, chatVars >>

\* threading after a manual run
ThreadManual(outputType, taskOutputData, previous) ==
    IF outputType = "noOutput" THEN Undefined
    ELSE IF IsDefined(taskOutputData) THEN taskOutputData ELSE previous

\* threading after a webhook run
ThreadWebhook(outputType, webhookResult) ==
    IF outputType = "noOutput" THEN Undefined
    ELSE IF IsDefined(webhookResult) THEN Some(<<Item(webhookResult, Undefined)>>)
    ELSE Undefined

\* FinalOutputOf keeping the payload of a noOutput task
FinalOutputOfKeepsNoOutput(outputType, outputPayload) == outputPayload

\* finalOutput after a task: nothing for a noOutput task
FinalOutputOf(outputType, outputPayload) ==
    IF outputType = "noOutput" THEN Undefined ELSE outputPayload

\* getPostExecutePromise answers: classify the run, extract and thread the output
PostExecuteReturn(runData) ==
    /\ pc = "waiting"
    /\ LET i == currentTaskIndex IN
       IF ~IsDefined(runData) THEN FailTask(results, ErrNoRunData)
       ELSE IF Val(runData).resultError
            THEN FailTask(results, ErrExecutionFailed)
       ELSE LET taskOutputData == extractRespondNodeOutput(Val(runData), Val(workflow))
                outputPayload == extractPrimaryJson(taskOutputData)
                res == [results EXCEPT ![i + 1].executionId = Some("execution"),
                                       ![i + 1].rawOutput = taskOutputData,
                                       ![i + 1].outputPayload = outputPayload,
                                       ![i + 1].status = "succeeded",
                                       ![i + 1].finished = TRUE]
            IN NextIteration(res,
                             ThreadManual(Result(i).outputType, taskOutputData,
                                          previousOutputData),
                             FinalOutputOf(Result(i).outputType, outputPayload))
    /\ UNCHANGED << tasks, userPrompt, chainThrown >>
    /\ UNCHANGED legacyVars
    /\ UNCHANGED << ioVars, written, otherRun, chatVars >>

\* WebhookReturn taking a non-2xx answer for a completed call without a body
WebhookReturnAcceptsStatus(response) ==
    /\ pc = "webhook"
    /\ LET i == currentTaskIndex IN
       IF response.kind = "throws" THEN FailTask(results, ErrCollaborator)
       ELSE LET webhookResult == response.body
                res == [results EXCEPT ![i + 1].executionId = Some("webhook-execution"),
                                       ![i + 1].outputPayload = webhookResult,
                                       ![i + 1].status = "succeeded",
                                       ![i + 1].finished = TRUE]
            IN NextIteration(res,
                             ThreadWebhook(Result(i).outputType, webhookResult),
                             FinalOutputOf(Result(i).outputType, webhookResult))
    /\ UNCHANGED << tasks, userPrompt, chainThrown >>
    /\ UNCHANGED legacyVars
    /\ UNCHANGED << ioVars, written, otherRun, chatVars >>

\* fetch answers or rejects: executeViaWebhook and the rest of the webhook branch
WebhookReturn(response) ==
    /\ pc = "webhook"
    /\ LET i == currentTaskIndex IN
       IF response.kind = "throws" THEN FailTask(results, ErrCollaborator)
       ELSE IF response.kind = "status"
            THEN FailTask(results, ErrWebhookStatus)
       ELSE LET webhookResult == response.body
                res == [results EXCEPT ![i + 1].executionId = Some("webhook-execution"),
                                       ![i + 1].outputPayload = webhookResult,
                                       ![i + 1].status = "succeeded",
                                       ![i + 1].finished = TRUE]
            IN NextIteration(res,
                             ThreadWebhook(Result(i).outputType, webhookResult),
                             FinalOutputOf(Result(i).outputType, webhookResult))
    /\ UNCHANGED << tasks, userPrompt, chainThrown >>
    /\ UNCHANGED legacyVars
    /\ UNCHANGED << ioVars, written, otherRun, chatVars >>

(***************************************************************************)
(* TaskExecutionService.executeTaskChain: the chain engine with the        *)
(* progress callback. Task.input and Task.output are compared as written.  *)
(***************************************************************************)
StrNoInput == Some(<<"n","o","I","n","p","u","t">>)
StrNoOutput == Some(<<"n","o","O","u","t","p","u","t">>)
StrJson == Some(<<"J","S","O","N">>)
StrPng == Some(<<"p","n","g">>)

LegacyTask ==
    { PlanItem("wfA", StrNoInput, StrJson),
      PlanItem("wfA", StrJson, StrNoOutput),
      PlanItem("wfB", StrPng, StrJson) }

LegacyTaskLists == UNION { [1..n -> LegacyTask] : n \in 0..MaxTasks }

\* userPrompt is a string here: the controller passes userPrompt || ''
LegacyPrompts == { Some(<<>>), Some(<<"h","i">>) }

Progress(status, i) ==
    [status |-> status, currentTask |-> i + 1, totalTasks |-> Len(tasks),
     workflowId |-> tasks[i + 1].workflowId]

\* TaskExecutionService.prepareInputData: optional JSON, never throws
legacyPrepareInputData(task, previousOutput, isFirstTask, prompt) ==
    IF task.input = StrNoInput THEN Undefined
    ELSE IF isFirstTask /\ task.input # StrNoInput
         THEN Some([key |-> "prompt", value |-> Val(prompt)])
    ELSE IF IsDefined(previousOutput) THEN previousOutput
    ELSE Undefined

\* TaskExecutionService.extractWorkflowOutput: optional JSON
extractWorkflowOutput(executionData) ==
    LET mainOutput == getDataLastExecutedNodeData(executionData) IN
    IF ~IsDefined(mainOutput) THEN Undefined
    ELSE IF Len(Val(mainOutput)) = 0 THEN Undefined
    ELSE LET outputData == Val(mainOutput)[1] IN
         IF Len(outputData) = 0 THEN Undefined ELSE outputData[1].json

\* seed attached by executeWorkflowTask
LegacyAttachedSeed(wf, task, data) ==
    IF IsDefined(data) /\ IsDefined(findTriggerNode(wf)) /\ task.input # StrNoInput
    THEN Some(<<Item(data, Undefined)>>) ELSE Undefined

\* loop iteration i up to the await of findWorkflowForUser, or the success
\* return when the loop is over
LegacyIteration(i, output, executed, events) ==
    /\ currentOutput' = output
    /\ executedTasks' = executed
    /\ IF i < Len(tasks)
       THEN /\ legacyIndex' = i
            /\ progressEvents' = events \o << Progress("starting", i), Progress("executing", i) >>
            /\ inputData' = legacyPrepareInputData(tasks[i + 1], output, i = 0, userPrompt)
            /\ calls' = Append(calls, Call("findWorkflowForUser", i, Undefined))
            /\ pc' = "legacyFind"
            /\ UNCHANGED legacyResult
       ELSE /\ progressEvents' = events
            /\ legacyResult' = Some([success |-> TRUE, output |-> output,
                                     error |-> Undefined, executedTasks |-> executed,
                                     failedTask |-> Undefined])
            /\ pc' = "legacyDone"
            /\ inputData' = Undefined
            /\ UNCHANGED << legacyIndex, calls >>

\* catch block of executeTaskChain
LegacyFail(message) ==
    /\ legacyResult' = Some([success |-> FALSE, output |-> Undefined,
                             error |-> Some(message), executedTasks |-> executedTasks,
                             failedTask |-> IF executedTasks < Len(tasks)
                                            THEN Some(tasks[executedTasks + 1].workflowId)
                                            ELSE Undefined])
    /\ pc' = "legacyDone"
    /\ inputData' = Undefined
    /\ workflow' = Undefined
    /\ UNCHANGED << legacyIndex, currentOutput, executedTasks, progressEvents, calls >>

ExecuteTaskChain(taskList, prompt) ==
    /\ pc = "idle"
    /\ tasks' = taskList
    /\ userPrompt' = prompt
    /\ currentOutput' = Undefined
    /\ executedTasks' = 0
    /\ IF Len(taskList) > 0
          THEN /\ legacyIndex' = 0
               /\ progressEvents' =
                     << [status |-> "starting", currentTask |-> 1,
                         totalTasks |-> Len(taskList), workflowId |-> taskList[1].workflowId],
                        [status |-> "executing", currentTask |-> 1,
                         totalTasks |-> Len(taskList), workflowId |-> taskList[1].workflowId] >>
               /\ inputData' = legacyPrepareInputData(taskList[1], Undefined, TRUE, prompt)
               /\ calls' = Append(calls, Call("findWorkflowForUser", 0, Undefined))
               /\ pc' = "legacyFind"
               /\ UNCHANGED legacyResult
          ELSE /\ legacyResult' = Some([success |-> TRUE, output |-> Undefined,
                                        error |-> Undefined, executedTasks |-> 0,
                                        failedTask |-> Undefined])
               /\ pc' = "legacyDone"
               /\ UNCHANGED << legacyIndex, progressEvents, inputData, calls >>
    /\ UNCHANGED << results, previousOutputData, finalOutput, currentTaskIndex,
                    currentWorkflowId, workflow, chainResult, chainThrown >>
    /\ UNCHANGED << ioVars, written, otherRun, chatVars >>

\* findWorkflowForUser rejects or answers null
LegacyFindFails(message) ==
    /\ pc = "legacyFind"
    /\ LegacyFail(message)
    /\ UNCHANGED << tasks, userPrompt, results, previousOutputData, finalOutput,
                    currentTaskIndex, currentWorkflowId, chainResult, chainThrown >>
    /\ UNCHANGED << ioVars, written, otherRun, chatVars >>

\* findWorkflowForUser answers a workflow: call executeManually
LegacyFindReturn(wf) ==
    /\ pc = "legacyFind"
    /\ workflow' = Some(wf)
    /\ calls' = Append(calls, Call("executeManually", legacyIndex,
                                   LegacyAttachedSeed(wf, tasks[legacyIndex + 1], inputData)))
    /\ pc' = "legacyExecute"
    /\ UNCHANGED << tasks, userPrompt, results, previousOutputData, finalOutput,
                    currentTaskIndex, currentWorkflowId, chainResult, chainThrown,
                    legacyVars >>
    /\ UNCHANGED << ioVars, written, otherRun, chatVars >>

LegacyExecuteFails(message) ==
    /\ pc = "legacyExecute"
    /\ LegacyFail(message)
    /\ UNCHANGED << tasks, userPrompt, results, previousOutputData, finalOutput,
                    currentTaskIndex, currentWorkflowId, chainResult, chainThrown >>
    /\ UNCHANGED << ioVars, written, otherRun, chatVars >>

LegacyExecuteReturn ==
    /\ pc = "legacyExecute"
    /\ calls' = Append(calls, Call("getPostExecutePromise", legacyIndex, Undefined))
    /\ pc' = "legacyWaiting"
    /\ UNCHANGED << tasks, userPrompt, results, previousOutputData, finalOutput,
                    currentTaskIndex, currentWorkflowId, workflow, chainResult,
                    chainThrown, legacyVars >>
    /\ UNCHANGED << ioVars, written, otherRun, chatVars >>

LegacyPostExecuteThrows ==
    /\ pc = "legacyWaiting"
    /\ LegacyFail(ErrCollaborator)
    /\ UNCHANGED << tasks, userPrompt, results, previousOutputData, finalOutput,
                    currentTaskIndex, currentWorkflowId, chainResult, chainThrown >>
    /\ UNCHANGED << ioVars, written, otherRun, chatVars >>

\* getPostExecutePromise answers: classify, extract, count, report, go on
LegacyPostExecuteReturn(runData) ==
    /\ pc = "legacyWaiting"
    /\ IF ~IsDefined(runData) THEN LegacyFail(ErrNoRunData)
       ELSE IF Val(runData).resultError THEN LegacyFail(ErrExecutionFailed)
       ELSE /\ LegacyIteration(legacyIndex + 1,
                               extractWorkflowOutput(Val(runData)),
                               executedTasks + 1,
                               Append(progressEvents, Progress("completed", legacyIndex)))
            /\ workflow' = Undefined
    /\ UNCHANGED << tasks, userPrompt, results, previousOutputData, finalOutput,
                    currentTaskIndex, currentWorkflowId, chainResult, chainThrown >>
    /\ UNCHANGED << ioVars, written, otherRun, chatVars >>

(***************************************************************************)
(* OrchestrationController.executeTasks: the final response written to the *)
(* caller for a returned chain result (the branch without a summary).      *)
(***************************************************************************)
\* SucceededCount counting every finished task
SucceededCountIncludesFailed(res) ==
    Cardinality({k \in DOMAIN res : res[k].status \in {"succeeded", "failed"}})

\* result.tasks.filter((t) => t.status === 'succeeded').length
SucceededCount(res) == Cardinality({k \in DOMAIN res : res[k].status = "succeeded"})

\* failedTask is the failed record, reported by its taskSummary
FinalResponse(result, res) ==
    [success |-> result.success,
     output |-> result.finalOutput,
     error |-> result.error,
     executedTasks |-> SucceededCount(res),
     failedTask |-> result.failedTask]

\* the final response of the endpoint built on executeTaskChain
LegacyFinalResponse(result) ==
    [success |-> result.success,
     output |-> result.output,
     error |-> result.error,
     executedTasks |-> result.executedTasks,
     failedTask |-> result.failedTask]

(***************************************************************************)
(* OrchestrationController.executeTasks: one execute-tasks request, from   *)
(* the body to the objects written to the response stream. The request is  *)
(* served by runTaskChain, or by executeTaskChain with a progress callback *)
(* that writes each event to the stream.                                   *)
(***************************************************************************)
\* tasks of a request body: output hint 'noOutput', output hint
\* 'no-output', no hints with a declared noOutput type, no hints
ControllerTasks ==
    { PlanItem("wfA", Undefined, StrNoOutput),
      PlanItem("wfA", Undefined, HintNoOutput),
      PlanItem("wfB", Undefined, Undefined),
      PlanItem("wfA", Undefined, Undefined) }

ControllerTaskLists == UNION { [1..n -> ControllerTasks] : n \in 1..(MaxTasks - 1) }

LegacyControllerTaskLists == UNION { [1..n -> LegacyTask] : n \in 1..(MaxTasks - 1) }

\* bodies without a usable task list: tasks absent, tasks empty
InvalidTaskLists == { Undefined, Some(<<>>) }

\* userPrompt of a body: '' or a text
ControllerPrompts == { Some(<<>>), Some(<<"h","i">>) }

\* userPrompt || undefined
PromptOrUndefined(prompt) ==
    IF IsDefined(prompt) /\ Val(prompt) # <<>> THEN prompt ELSE Undefined

\* answers of the summary request: transport exception, non-2xx status,
\* unreadable body, a body without content, with empty content, with content
SummaryAnswers ==
    { [kind |-> "throws", content |-> Undefined],
      [kind |-> "status", content |-> Undefined],
      [kind |-> "badJson", content |-> Undefined],
      [kind |-> "json", content |-> Undefined],
      [kind |-> "json", content |-> Some("")],
      [kind |-> "json", content |-> Some("Done.")] }

SummaryNoKey ==
    "All tasks completed successfully. No output was generated from the final workflow."
SummaryDefault == "All tasks completed successfully."
SummaryFailed == "All tasks completed successfully. Summary generation failed."

\* generateTaskSummary letting a failed request end in an empty summary
generateTaskSummaryEmptyOnFailure(answer) ==
    IF answer.kind # "json" THEN ""
    ELSE IF IsDefined(answer.content) THEN Val(answer.content)
    ELSE ""

\* generateTaskSummary from the answer of the request on
generateTaskSummary(answer) ==
    IF answer.kind # "json" THEN SummaryFailed
    ELSE IF IsDefined(answer.content) /\ Val(answer.content) # ""
         THEN Val(answer.content)
    ELSE SummaryDefault

\* { ...finalResponse, isFinal: true }
WithIsFinal(response) ==
    [k \in DOMAIN response \cup {"isFinal"} |->
        IF k = "isFinal" THEN TRUE ELSE response[k]]

ErrorResponse(message) ==
    [success |-> FALSE, error |-> message, executedTasks |-> 0, isFinal |-> TRUE]

SummaryResponse(summary, executed) ==
    WithIsFinal([success |-> TRUE, summary |-> summary, executedTasks |-> executed])

\* toolResults: one entry per record with an output payload, in task order
ToolResults(res) ==
    LET withPayload == SelectSeq(res, LAMBDA r : IsDefined(r.outputPayload)) IN
    [k \in DOMAIN withPayload |->
        [source |-> withPayload[k].workflowId,
         data |-> Val(withPayload[k].outputPayload)]]

\* finalResponse.toolResults = toolResults
WithToolResults(response, res) ==
    [k \in DOMAIN response \cup {"toolResults"} |->
        IF k = "toolResults" THEN ToolResults(res) ELSE response[k]]

\* ProgressObjects writing the last task first
ProgressObjectsReversed(res) ==
    [k \in DOMAIN res |->
        [currentTaskIndex |-> res[Len(res) + 1 - k].index,
         totalTasks |-> Len(res),
         currentWorkflowId |-> res[Len(res) + 1 - k].workflowId,
         status |-> res[Len(res) + 1 - k].status]]

\* for (const taskResult of result.tasks): one progress object per record
ProgressObjects(res) ==
    [k \in DOMAIN res |->
        [currentTaskIndex |-> res[k].index,
         totalTasks |-> Len(res),
         currentWorkflowId |-> res[k].workflowId,
         status |-> res[k].status]]

\* result.success && lastTask?.output === 'noOutput'
WantsSummary(success) == success /\ tasks[Len(tasks)].output = StrNoOutput

\* the body has no task list: one error object, end of the response
ExecuteTasksRejects(taskList) ==
    /\ pc = "idle"
    /\ IF IsDefined(taskList) THEN Len(Val(taskList)) = 0 ELSE TRUE
    /\ written' = << ErrorResponse(ErrEmptyTasks) >>
    /\ pc' = "ended"
    /\ UNCHANGED << tasks, userPrompt, results, previousOutputData, finalOutput,
                    currentTaskIndex, currentWorkflowId, workflow, chainResult,
                    chainThrown, calls >>
    /\ UNCHANGED << legacyVars, ioVars, otherRun, chatVars >>

\* the body has tasks: runTaskChain is called and awaited
ExecuteTasks(taskList, prompt) ==
    /\ Len(taskList) > 0
    /\ RunTaskChain(taskList, PromptOrUndefined(prompt))

\* ExecuteTasksCatch swallowing the exception
ExecuteTasksCatchSilent ==
    /\ pc = "thrown"
    /\ written' = written
    /\ pc' = "ended"
    /\ UNCHANGED << tasks, userPrompt, results, previousOutputData, finalOutput,
                    currentTaskIndex, currentWorkflowId, workflow, chainResult,
                    chainThrown, calls >>
    /\ UNCHANGED << legacyVars, ioVars, otherRun, chatVars >>

\* runTaskChain rejected: the catch block writes one error object
ExecuteTasksCatch ==
    /\ pc = "thrown"
    /\ written' = Append(written, ErrorResponse(Val(chainThrown)))
    /\ pc' = "ended"
    /\ UNCHANGED << tasks, userPrompt, results, previousOutputData, finalOutput,
                    currentTaskIndex, currentWorkflowId, workflow, chainResult,
                    chainThrown, calls >>
    /\ UNCHANGED << legacyVars, ioVars, otherRun, chatVars >>

\* runTaskChain returned: one progress object per record, then the final
\* object, or the summary request when a summary is wanted and the API key
\* is set
ExecuteTasksRespond(apiKey) ==
    /\ pc = "done"
    /\ LET result == Val(chainResult)
           progress == written \o ProgressObjects(results)
       IN IF WantsSummary(result.success)
          THEN IF apiKey
               THEN /\ written' = progress
                    /\ pc' = "summary"
               ELSE /\ written' = Append(progress,
                                         WithToolResults(
                                             SummaryResponse(SummaryNoKey,
                                                             SucceededCount(results)),
                                             results))
                    /\ pc' = "ended"
          ELSE /\ written' = Append(progress,
                                    WithIsFinal(WithToolResults(
                                                    FinalResponse(result, results),
                                                    results)))
               /\ pc' = "ended"
    /\ UNCHANGED << tasks, userPrompt, results, previousOutputData, finalOutput,
                    currentTaskIndex, currentWorkflowId, workflow, chainResult,
                    chainThrown, calls >>
    /\ UNCHANGED << legacyVars, ioVars, otherRun, chatVars >>

\* the summary request is answered: the final object with the summary
GenerateTaskSummaryReturn(answer) ==
    /\ pc = "summary"
    /\ written' = Append(written,
                         WithToolResults(SummaryResponse(generateTaskSummary(answer),
                                                         SucceededCount(results)),
                                         results))
    /\ pc' = "ended"
    /\ UNCHANGED << tasks, userPrompt, results, previousOutputData, finalOutput,
                    currentTaskIndex, currentWorkflowId, workflow, chainResult,
                    chainThrown, calls >>
    /\ UNCHANGED << legacyVars, ioVars, otherRun, chatVars >>

\* the endpoint built on executeTaskChain: the same check of the body
LegacyExecuteTasksRejects(taskList) ==
    /\ pc = "idle"
    /\ IF IsDefined(taskList) THEN Len(Val(taskList)) = 0 ELSE TRUE
    /\ written' = << ErrorResponse(ErrEmptyTasks) >>
    /\ pc' = "legacyEnded"
    /\ UNCHANGED << tasks, userPrompt, results, previousOutputData, finalOutput,
                    currentTaskIndex, currentWorkflowId, workflow, chainResult,
                    chainThrown, calls >>
    /\ UNCHANGED << legacyVars, ioVars, otherRun, chatVars >>

\* executeTaskChain is called with userPrompt || '' and the callback that
\* writes every progress event to the stream
LegacyExecuteTasks(taskList, prompt) ==
    /\ Len(taskList) > 0
    /\ ExecuteTaskChain(taskList, prompt)

\* executeTaskChain returned: the final object, or the summary request
LegacyExecuteTasksRespond(apiKey) ==
    /\ pc = "legacyDone"
    /\ LET result == Val(legacyResult) IN
       IF WantsSummary(result.success)
       THEN IF apiKey
            THEN /\ pc' = "legacySummary"
                 /\ UNCHANGED written
            ELSE /\ written' = Append(written,
                                      SummaryResponse(SummaryNoKey, result.executedTasks))
                 /\ pc' = "legacyEnded"
       ELSE /\ written' = Append(written, WithIsFinal(LegacyFinalResponse(result)))
            /\ pc' = "legacyEnded"
    /\ UNCHANGED << tasks, userPrompt, results, previousOutputData, finalOutput,
                    currentTaskIndex, currentWorkflowId, workflow, chainResult,
                    chainThrown, calls >>
    /\ UNCHANGED << legacyVars, ioVars, otherRun, chatVars >>

LegacyGenerateTaskSummaryReturn(answer) ==
    /\ pc = "legacySummary"
    /\ written' = Append(written, SummaryResponse(generateTaskSummary(answer),
                                                  Val(legacyResult).executedTasks))
    /\ pc' = "legacyEnded"
    /\ UNCHANGED << tasks, userPrompt, results, previousOutputData, finalOutput,
                    currentTaskIndex, currentWorkflowId, workflow, chainResult,
                    chainThrown, calls >>
    /\ UNCHANGED << legacyVars, ioVars, otherRun, chatVars >>

\* the objects the client has received: the events the callback wrote while
\* executeTaskChain ran, then the objects executeTasks wrote itself
Stream == progressEvents \o written

(***************************************************************************)
(* OrchestrationController.saveChat, listChats, getChat, deleteChat: the   *)
(* chat store. A handler runs to its first repository call when the       *)
(* request arrives and goes on when the repository answers; the requests   *)
(* of different users interleave at these awaits.                          *)
(***************************************************************************)
MaxChats == 1

Users == { "u1", "u2" }
ChatIds == 1 .. MaxChats

\* request bodies: chatId absent or an id, title absent or given, messages
\* absent or an array of messages, taskResults an array or absent
NoChatId == 0

\* a message: whether it has a role property, and its content
BlankMessage == [hasRole |-> FALSE, content |-> << " " >>]
PlainMessage == [hasRole |-> FALSE, content |-> << "m" >>]
RoleMessage == [hasRole |-> TRUE, content |-> << "r" >>]

\* the bodies of saveChat together with whether the API key is set: bodies
\* without a valid message, bodies to save, and summarization requests
SaveChatBody(title, messages, taskResults, apiKey) ==
    [title |-> title, messages |-> messages, taskResults |-> taskResults,
     apiKey |-> apiKey]
SaveChatBodies ==
    { SaveChatBody(Undefined, Undefined, FALSE, TRUE),
      SaveChatBody(Some("t"), Some(<< BlankMessage >>), FALSE, TRUE),
      SaveChatBody(Undefined, Some(<< >>), FALSE, FALSE),
      SaveChatBody(Undefined, Some(<< PlainMessage >>), FALSE, FALSE),
      SaveChatBody(Some("t"), Some(<< PlainMessage >>), FALSE, TRUE),
      SaveChatBody(Undefined, Some(<< BlankMessage, RoleMessage >>), FALSE, TRUE),
      SaveChatBody(Undefined, Some(<< RoleMessage >>), FALSE, TRUE),
      SaveChatBody(Undefined, Some(<< RoleMessage >>), FALSE, FALSE),
      SaveChatBody(Undefined, Some(<< >>), TRUE, TRUE),
      SaveChatBody(Some("t"), Some(<< PlainMessage >>), TRUE, TRUE) }

\* the answers of the chat completion request
CompletionAnswers == { "content", "notOk", "noContent" }

\* messages.filter(msg => msg.content && msg.content.trim() !== '')
ValidMessages(messages) ==
    SelectSeq(messages, LAMBDA msg : msg.content # <<>> /\ Trim(msg.content) # <<>>)

\* the body is a summarization request: messages is an array and either
\* taskResults is an array or the first message has a role
IsSummarization(messages, taskResults) ==
    IF IsDefined(messages)
    THEN \/ taskResults
         \/ IF Len(Val(messages)) > 0 THEN Val(messages)[1].hasRole ELSE FALSE
    ELSE FALSE

IdleSession == [stage |-> "idle", chatId |-> NoChatId]
NotFound(chatId) == [stage |-> "notFound", chatId |-> chatId]

\* findOne({ where: { id: chatId, userId } }): the optional row
FindOne(chatId, userId) ==
    IF chatId \in ChatIds /\ IsDefined(chats[chatId]) /\ Val(chats[chatId]).userId = userId
    THEN chats[chatId] ELSE Undefined

\* a user has no request in flight
ResponseStages == { "notFound", "soft", "saved", "chat", "deleted", "list",
                    "badRequest", "error", "answer" }
CanRequest(u) == session[u].stage \in {"idle"} \cup ResponseStages

\* saveChat up to its first await. A summarization request is rejected,
\* fails without the API key, or awaits the chat completion. Else the soft
\* success for a body without a valid message, else findOne for a given
\* chatId, else save of a new row
SaveChat(u, chatId, title, messages, taskResults, apiKey) ==
    /\ CanRequest(u)
    /\ IF IsSummarization(messages, taskResults)
       THEN session' = [session EXCEPT ![u] =
                           [stage |-> IF Len(Val(messages)) = 0 THEN "badRequest"
                                      ELSE IF ~apiKey THEN "error"
                                      ELSE "summarize",
                            chatId |-> chatId]]
       ELSE IF (IF IsDefined(messages) THEN ValidMessages(Val(messages)) = <<>> ELSE TRUE)
       THEN session' = [session EXCEPT ![u] =
                           [stage |-> "soft", chatId |-> chatId,
                            title |-> IF IsDefined(title) THEN title
                                      ELSE Some("Untitled Chat")]]
       ELSE IF chatId # NoChatId
       THEN session' = [session EXCEPT ![u] =
                           [stage |-> "saveFind", chatId |-> chatId, title |-> title,
                            messages |-> ValidMessages(Val(messages))]]
       ELSE session' = [session EXCEPT ![u] =
                           [stage |-> "saveCreate", chatId |-> NoChatId,
                            row |-> [userId |-> u, title |-> title,
                                     messages |-> ValidMessages(Val(messages))]]]
    /\ UNCHANGED << chats, nextChatId >>
    /\ UNCHANGED << chainVars, legacyVars, ioVars, written, otherRun >>

\* the chat completion answers saveChat: its content, or an error
SaveChatSummarized(u, answer) ==
    /\ session[u].stage = "summarize"
    /\ session' = [session EXCEPT ![u] =
                      [stage |-> IF answer = "content" THEN "answer" ELSE "error",
                       chatId |-> session[u].chatId]]
    /\ UNCHANGED << chats, nextChatId >>
    /\ UNCHANGED << chainVars, legacyVars, ioVars, written, otherRun >>

\* findOne answers saveChat: not-found, or the row is changed and saved
SaveChatFound(u) ==
    /\ session[u].stage = "saveFind"
    /\ LET existingChat == FindOne(session[u].chatId, u) IN
       IF ~IsDefined(existingChat)
       THEN session' = [session EXCEPT ![u] = NotFound(session[u].chatId)]
       ELSE session' = [session EXCEPT ![u] =
                           [stage |-> "saveWrite", chatId |-> session[u].chatId,
                            row |-> [userId |-> Val(existingChat).userId,
                                     title |-> IF IsDefined(session[u].title)
                                               THEN session[u].title
                                               ELSE Val(existingChat).title,
                                     messages |-> session[u].messages]]]
    /\ UNCHANGED << chats, nextChatId >>
    /\ UNCHANGED << chainVars, legacyVars, ioVars, written, otherRun >>

\* save(existingChat) answers: the row is stored under its id
SaveChatSaved(u) ==
    /\ session[u].stage = "saveWrite"
    /\ chats' = [chats EXCEPT ![session[u].chatId] = Some(session[u].row)]
    /\ session' = [session EXCEPT ![u] =
                      [stage |-> "saved", chatId |-> session[u].chatId,
                       title |-> session[u].row.title]]
    /\ UNCHANGED nextChatId
    /\ UNCHANGED << chainVars, legacyVars, ioVars, written, otherRun >>

\* save(newChat) answers: the row is stored under a new id
SaveChatCreated(u) ==
    /\ session[u].stage = "saveCreate"
    /\ nextChatId \in ChatIds
    /\ chats' = [chats EXCEPT ![nextChatId] = Some(session[u].row)]
    /\ nextChatId' = nextChatId + 1
    /\ session' = [session EXCEPT ![u] =
                      [stage |-> "saved", chatId |-> nextChatId,
                       title |-> session[u].row.title]]
    /\ UNCHANGED << chainVars, legacyVars, ioVars, written, otherRun >>

\* listChats is called: find({ where: { userId } }) is awaited
ListChats(u) ==
    /\ CanRequest(u)
    /\ session' = [session EXCEPT ![u] = [stage |-> "listFind", chatId |-> NoChatId]]
    /\ UNCHANGED << chats, nextChatId >>
    /\ UNCHANGED << chainVars, legacyVars, ioVars, written, otherRun >>

\* find answers listChats: id and title of the rows of the user
ListChatsFound(u) ==
    /\ session[u].stage = "listFind"
    /\ session' = [session EXCEPT ![u] =
                      [stage |-> "list", chatId |-> NoChatId,
                       chats |-> { [id |-> id,
                                    title |-> IF IsDefined(Val(chats[id]).title)
                                              THEN Val(Val(chats[id]).title)
                                              ELSE "New Chat"] :
                                   id \in { c \in ChatIds :
                                              /\ IsDefined(chats[c])
                                              /\ Val(chats[c]).userId = u } }]]
    /\ UNCHANGED << chats, nextChatId >>
    /\ UNCHANGED << chainVars, legacyVars, ioVars, written, otherRun >>

\* getChat is called: findOne is awaited
GetChat(u, chatId) ==
    /\ CanRequest(u)
    /\ session' = [session EXCEPT ![u] = [stage |-> "getFind", chatId |-> chatId]]
    /\ UNCHANGED << chats, nextChatId >>
    /\ UNCHANGED << chainVars, legacyVars, ioVars, written, otherRun >>

\* GetChatFound finding the chat of any user
GetChatFoundAnyOwner(u) ==
    /\ session[u].stage = "getFind"
    /\ LET chat == chats[session[u].chatId] IN
       IF ~IsDefined(chat)
       THEN session' = [session EXCEPT ![u] = NotFound(session[u].chatId)]
       ELSE session' = [session EXCEPT ![u] =
                           [stage |-> "chat", chatId |-> session[u].chatId,
                            title |-> Val(chat).title, messages |-> Val(chat).messages]]
    /\ UNCHANGED << chats, nextChatId >>
    /\ UNCHANGED << chainVars, legacyVars, ioVars, written, otherRun >>

\* findOne answers getChat: not-found, or id, title and messages of the row
GetChatFound(u) ==
    /\ session[u].stage = "getFind"
    /\ LET chat == FindOne(session[u].chatId, u) IN
       IF ~IsDefined(chat)
       THEN session' = [session EXCEPT ![u] = NotFound(session[u].chatId)]
       ELSE session' = [session EXCEPT ![u] =
                           [stage |-> "chat", chatId |-> session[u].chatId,
                            title |-> Val(chat).title, messages |-> Val(chat).messages]]
    /\ UNCHANGED << chats, nextChatId >>
    /\ UNCHANGED << chainVars, legacyVars, ioVars, written, otherRun >>

\* deleteChat is called: findOne is awaited
DeleteChat(u, chatId) ==
    /\ CanRequest(u)
    /\ session' = [session EXCEPT ![u] = [stage |-> "deleteFind", chatId |-> chatId]]
    /\ UNCHANGED << chats, nextChatId >>
    /\ UNCHANGED << chainVars, legacyVars, ioVars, written, otherRun >>

\* findOne answers deleteChat: not-found, or remove(chat) is awaited
DeleteChatFound(u) ==
    /\ session[u].stage = "deleteFind"
    /\ IF ~IsDefined(FindOne(session[u].chatId, u))
       THEN session' = [session EXCEPT ![u] = NotFound(session[u].chatId)]
       ELSE session' = [session EXCEPT ![u] =
                           [stage |-> "deleteRemove", chatId |-> session[u].chatId]]
    /\ UNCHANGED << chats, nextChatId >>
    /\ UNCHANGED << chainVars, legacyVars, ioVars, written, otherRun >>

\* remove(chat) answers: the row is gone
DeleteChatRemoved(u) ==
    /\ session[u].stage = "deleteRemove"
    /\ chats' = [chats EXCEPT ![session[u].chatId] = Undefined]
    /\ session' = [session EXCEPT ![u] =
                      [stage |-> "deleted", chatId |-> session[u].chatId]]
    /\ UNCHANGED nextChatId
    /\ UNCHANGED << chainVars, legacyVars, ioVars, written, otherRun >>

\* the local variables of a chain run that has not started
IdleRun ==
    [pc |-> "idle", tasks |-> <<>>, userPrompt |-> Undefined, results |-> <<>>,
     previousOutputData |-> Undefined, finalOutput |-> Undefined,
     currentTaskIndex |-> -1, currentWorkflowId |-> Undefined,
     workflow |-> Undefined, chainResult |-> Undefined, chainThrown |-> Undefined,
     calls |-> <<>>, legacyIndex |-> 0, currentOutput |-> Undefined,
     executedTasks |-> 0, inputData |-> Undefined, progressEvents |-> <<>>,
     legacyResult |-> Undefined]

vars == << chainVars, legacyVars, ioVars, written, otherRun, chatVars >>

Init ==
    /\ pc = "idle"
    /\ tasks = <<>>
    /\ userPrompt = Undefined
    /\ results = <<>>
    /\ previousOutputData = Undefined
    /\ finalOutput = Undefined
    /\ currentTaskIndex = -1
    /\ currentWorkflowId = Undefined
    /\ workflow = Undefined
    /\ chainResult = Undefined
    /\ chainThrown = Undefined
    /\ calls = <<>>
    /\ legacyIndex = 0
    /\ currentOutput = Undefined
    /\ executedTasks = 0
    /\ inputData = Undefined
    /\ progressEvents = <<>>
    /\ legacyResult = Undefined
    /\ ioCall = "none"
    /\ ioArgs = Undefined
    /\ ioResult = Undefined
    /\ written = <<>>
    /\ otherRun = IdleRun
    /\ chats = [id \in ChatIds |-> Undefined]
    /\ nextChatId = 1
    /\ session = [u \in Users |-> IdleSession]

Next ==
    \/ \E taskList \in TaskLists, prompt \in Prompts : RunTaskChain(taskList, prompt)
    \/ DescriptionsThrow
    \/ \E descriptions \in DescriptionAnswers : DescriptionsReturn(descriptions)
    \/ \E message \in {ErrNotFound, ErrCollaborator} : LoadWorkflowFails(message)
    \/ \E wf \in Workflows : LoadWorkflowReturn(wf)
    \/ \E message \in {ErrStartFailed, ErrCollaborator} : ExecuteManuallyFails(message)
    \/ ExecuteManuallyReturn
    \/ PostExecuteThrows
    \/ \E runData \in RunAnswers(currentTaskIndex) : PostExecuteReturn(runData)
    \/ \E response \in WebhookAnswers(currentTaskIndex) : WebhookReturn(response)
    \/ \E taskList \in LegacyTaskLists, prompt \in LegacyPrompts :
          ExecuteTaskChain(taskList, prompt)
    \/ \E message \in {ErrNotFound, ErrCollaborator} : LegacyFindFails(message)
    \/ \E wf \in Workflows : LegacyFindReturn(wf)
    \/ \E message \in {ErrStartFailed, ErrCollaborator} : LegacyExecuteFails(message)
    \/ LegacyExecuteReturn
    \/ LegacyPostExecuteThrows
    \/ \E runData \in RunAnswers(legacyIndex) : LegacyPostExecuteReturn(runData)

Spec == Init /\ [][Next]_vars

\* the task lists and workflows of the runs whose termination is checked
LiveTaskLists ==
    UNION { [1..n -> { PlanItem("wfA", Undefined, Undefined),
                       PlanItem("wfB", Undefined, Undefined) }] : n \in 0..MaxTasks }
LiveWorkflows == { WfManual, WfWebhook(TRUE), WfWebhook(FALSE) }

\* one run of runTaskChain
NextLive ==
    \/ \E taskList \in LiveTaskLists : RunTaskChain(taskList, Some(<<"h","i">>))
    \/ DescriptionsThrow
    \/ \E descriptions \in DescriptionAnswers : DescriptionsReturn(descriptions)
    \/ \E message \in {ErrNotFound} : LoadWorkflowFails(message)
    \/ \E wf \in LiveWorkflows : LoadWorkflowReturn(wf)
    \/ \E message \in {ErrStartFailed} : ExecuteManuallyFails(message)
    \/ ExecuteManuallyReturn
    \/ PostExecuteThrows
    \/ \E runData \in RunAnswers(currentTaskIndex) : PostExecuteReturn(runData)
    \/ \E response \in WebhookAnswers(currentTaskIndex) : WebhookReturn(response)

\* every collaborator call of a started run is answered at last
CollaboratorsAnswer == WF_vars(pc # "idle" /\ NextLive)

SpecLive == Init /\ [][NextLive]_vars /\ CollaboratorsAnswer

\* one execute-tasks request, served by either endpoint
NextController ==
    \/ \E taskList \in InvalidTaskLists : ExecuteTasksRejects(taskList)
    \/ \E taskList \in ControllerTaskLists, prompt \in ControllerPrompts :
          ExecuteTasks(taskList, prompt)
    \/ DescriptionsThrow
    \/ \E descriptions \in DescriptionAnswers : DescriptionsReturn(descriptions)
    \/ \E message \in {ErrNotFound} : LoadWorkflowFails(message)
    \/ \E wf \in {WfManual, WfWebhook(TRUE), WfWebhook(FALSE)} : LoadWorkflowReturn(wf)
    \/ \E message \in {ErrStartFailed} : ExecuteManuallyFails(message)
    \/ ExecuteManuallyReturn
    \/ PostExecuteThrows
    \/ \E runData \in RunAnswers(currentTaskIndex) : PostExecuteReturn(runData)
    \/ \E response \in WebhookAnswers(currentTaskIndex) : WebhookReturn(response)
    \/ ExecuteTasksCatch
    \/ \E apiKey \in BOOLEAN : ExecuteTasksRespond(apiKey)
    \/ \E answer \in SummaryAnswers : GenerateTaskSummaryReturn(answer)
    \/ \E taskList \in InvalidTaskLists : LegacyExecuteTasksRejects(taskList)
    \/ \E taskList \in LegacyControllerTaskLists, prompt \in ControllerPrompts :
          LegacyExecuteTasks(taskList, prompt)
    \/ \E message \in {ErrNotFound} : LegacyFindFails(message)
    \/ \E wf \in {WfManual, WfNoTrigger} : LegacyFindReturn(wf)
    \/ \E message \in {ErrStartFailed} : LegacyExecuteFails(message)
    \/ LegacyExecuteReturn
    \/ LegacyPostExecuteThrows
    \/ \E runData \in RunAnswers(legacyIndex) : LegacyPostExecuteReturn(runData)
    \/ \E apiKey \in BOOLEAN : LegacyExecuteTasksRespond(apiKey)
    \/ \E answer \in SummaryAnswers : LegacyGenerateTaskSummaryReturn(answer)

SpecController == Init /\ [][NextController]_vars

(***************************************************************************)
(* Two chain runs on one service instance. Every variable of a run is a    *)
(* parameter or a local of its call of runTaskChain or executeTaskChain;   *)
(* at an await the event loop may resume the other run, which finds its    *)
(* locals as it left them.                                                 *)
(***************************************************************************)
\* the locals of the run that is executing
ThisRun ==
    [pc |-> pc, tasks |-> tasks, userPrompt |-> userPrompt, results |-> results,
     previousOutputData |-> previousOutputData, finalOutput |-> finalOutput,
     currentTaskIndex |-> currentTaskIndex, currentWorkflowId |-> currentWorkflowId,
     workflow |-> workflow, chainResult |-> chainResult, chainThrown |-> chainThrown,
     calls |-> calls, legacyIndex |-> legacyIndex, currentOutput |-> currentOutput,
     executedTasks |-> executedTasks, inputData |-> inputData,
     progressEvents |-> progressEvents, legacyResult |-> legacyResult]

\* Switch with finalOutput kept on the service instance, shared by the runs
SwitchSharesFinalOutput ==
    /\ otherRun' = ThisRun
    /\ pc' = otherRun.pc
    /\ tasks' = otherRun.tasks
    /\ userPrompt' = otherRun.userPrompt
    /\ results' = otherRun.results
    /\ previousOutputData' = otherRun.previousOutputData
    /\ finalOutput' = finalOutput
    /\ currentTaskIndex' = otherRun.currentTaskIndex
    /\ currentWorkflowId' = otherRun.currentWorkflowId
    /\ workflow' = otherRun.workflow
    /\ chainResult' = otherRun.chainResult
    /\ chainThrown' = otherRun.chainThrown
    /\ calls' = otherRun.calls
    /\ legacyIndex' = otherRun.legacyIndex
    /\ currentOutput' = otherRun.currentOutput
    /\ executedTasks' = otherRun.executedTasks
    /\ inputData' = otherRun.inputData
    /\ progressEvents' = otherRun.progressEvents
    /\ legacyResult' = otherRun.legacyResult
    /\ UNCHANGED << ioVars, written, chatVars >>

\* the executing run is suspended at its await (or has not started, or has
\* returned) and the other run goes on
Switch ==
    /\ otherRun' = ThisRun
    /\ pc' = otherRun.pc
    /\ tasks' = otherRun.tasks
    /\ userPrompt' = otherRun.userPrompt
    /\ results' = otherRun.results
    /\ previousOutputData' = otherRun.previousOutputData
    /\ finalOutput' = otherRun.finalOutput
    /\ currentTaskIndex' = otherRun.currentTaskIndex
    /\ currentWorkflowId' = otherRun.currentWorkflowId
    /\ workflow' = otherRun.workflow
    /\ chainResult' = otherRun.chainResult
    /\ chainThrown' = otherRun.chainThrown
    /\ calls' = otherRun.calls
    /\ legacyIndex' = otherRun.legacyIndex
    /\ currentOutput' = otherRun.currentOutput
    /\ executedTasks' = otherRun.executedTasks
    /\ inputData' = otherRun.inputData
    /\ progressEvents' = otherRun.progressEvents
    /\ legacyResult' = otherRun.legacyResult
    /\ UNCHANGED << ioVars, written, chatVars >>

\* task lists of the two runs
TwoRunTaskLists ==
    { << PlanItem("wfA", Undefined, Undefined) >>,
      << PlanItem("wfA", Undefined, Undefined), PlanItem("wfA", Undefined, Undefined) >>,
      << PlanItem("wfA", Undefined, Undefined), PlanItem("wfB", Undefined, Undefined) >> }

LegacyTwoRunTaskLists ==
    { << PlanItem("wfA", StrNoInput, StrJson), PlanItem("wfA", StrJson, StrNoOutput) >> }

NextTwo ==
    \/ \E taskList \in TwoRunTaskLists : RunTaskChain(taskList, Some(<<"h","i">>))
    \/ \E descriptions \in DescriptionAnswers : DescriptionsReturn(descriptions)
    \/ \E message \in {ErrNotFound} : LoadWorkflowFails(message)
    \/ \E wf \in {WfManual, WfWebhook(TRUE)} : LoadWorkflowReturn(wf)
    \/ ExecuteManuallyReturn
    \/ \E runData \in {Some(RunError),
                       Some(RunRespond(<< Item(Some(JsonOut(currentTaskIndex)),
                                               Undefined) >>))} :
          PostExecuteReturn(runData)
    \/ \E response \in {[kind |-> "status", body |-> Undefined],
                        [kind |-> "json", body |-> Some(JsonOut(currentTaskIndex))]} :
          WebhookReturn(response)
    \/ \E taskList \in LegacyTwoRunTaskLists :
          ExecuteTaskChain(taskList, Some(<<"h","i">>))
    \/ \E wf \in {WfManual} : LegacyFindReturn(wf)
    \/ LegacyExecuteReturn
    \/ \E runData \in {Some(RunError),
                       Some(RunRespond(<< Item(Some(JsonOut(legacyIndex)),
                                               Undefined) >>))} :
          LegacyPostExecuteReturn(runData)
    \/ Switch

SpecTwo == Init /\ [][NextTwo]_vars

\* the chat requests of the users
NextChat ==
    \/ \E u \in Users, chatId \in {NoChatId} \cup ChatIds, body \in SaveChatBodies :
          SaveChat(u, chatId, body.title, body.messages, body.taskResults, body.apiKey)
    \/ \E u \in Users, answer \in CompletionAnswers : SaveChatSummarized(u, answer)
    \/ \E u \in Users : SaveChatFound(u)
    \/ \E u \in Users : SaveChatSaved(u)
    \/ \E u \in Users : SaveChatCreated(u)
    \/ \E u \in Users : ListChats(u)
    \/ \E u \in Users : ListChatsFound(u)
    \/ \E u \in Users, chatId \in ChatIds : GetChat(u, chatId)
    \/ \E u \in Users : GetChatFound(u)
    \/ \E u \in Users, chatId \in ChatIds : DeleteChat(u, chatId)
    \/ \E u \in Users : DeleteChatFound(u)
    \/ \E u \in Users : DeleteChatRemoved(u)

SpecChat == Init /\ [][NextChat]_vars

(***************************************************************************)
(* The pure functions of I/O type resolution, applied to one input each:   *)
(* normalizeIoType, resolveIoType, and the construction of a result        *)
(* record from a task and the description of its workflow.                 *)
(***************************************************************************)
ToUpperChar(c) ==
    IF \E k \in DOMAIN LowerChars : LowerChars[k] = c
    THEN UpperChars[CHOOSE k \in DOMAIN LowerChars : LowerChars[k] = c]
    ELSE c

\* every upper/lower-case variant of a lower-case string
CaseVariants(s) ==
    { [k \in DOMAIN s |-> IF mask[k] THEN ToUpperChar(s[k]) ELSE s[k]] :
          mask \in [DOMAIN s -> BOOLEAN] }

\* the spellings the switch of normalizeIoType lists for a type
Spellings(type) ==
    CASE type = "JSON" -> { <<"j","s","o","n">> }
      [] type = "png" -> { <<"p","n","g">> }
      [] type = "noInput" -> { <<"n","o","i","n","p","u","t">>,
                               <<"n","o","-","i","n","p","u","t">> }
      [] type = "noOutput" -> { <<"n","o","o","u","t","p","u","t">>,
                                <<"n","o","-","o","u","t","p","u","t">> }

AllSpellings == UNION { Spellings(type) : type \in TaskIoType }

\* whitespace written around a hint
Paddings == { <<>>, <<" ">>, <<"\t", "\n">> }

\* strings that are no spelling of a type
OtherStrings ==
    { <<" ">>, <<"j","s","n">>, <<"t","e","x","t">>, <<"j","s","o","n","5">>,
      <<"n","o","_","i","n","p","u","t">>, <<"n","o"," ","o","u","t","p","u","t">>,
      <<"b","i","n","a","r","y">> }

\* values handed to normalizeIoType: absent, empty, every case variant of
\* every spelling, padded spellings, other strings
HintValues ==
    { Undefined, Some(<<>>) }
        \cup { Some(v) : v \in UNION { CaseVariants(c) : c \in AllSpellings } }
        \cup { Some(l \o v \o r) :
                 l \in Paddings, r \in Paddings,
                 v \in AllSpellings \cup { [k \in DOMAIN c |-> ToUpperChar(c[k])] :
                                             c \in AllSpellings } }
        \cup { Some(v) : v \in OtherStrings }

\* arguments of resolveIoType
SmallHints ==
    { Undefined, Some(<<"j","s","o","n">>), Some(<<"P","N","G">>),
      Some(<<" ","N","o","-","I","n","p","u","t">>),
      Some(<<"n","o","o","u","t","p","u","t">>), Some(<<"t","e","x","t">>) }
DescriptionValues == { Undefined } \cup { Some(type) : type \in TaskIoType }

\* a task and the workflowDescription of its workflow
DeclaredValues ==
    { Undefined, Some(<<"p","n","g">>), Some(<<"N","o","O","u","t","p","u","t">>),
      Some(<<"b","i","n","a","r","y">>) }
IoTasks == { PlanItem("wfA", input, output) : input \in SmallHints, output \in SmallHints }
IoDescriptions ==
    { NoDescription }
        \cup { Some([inputType |-> a, outputType |-> b]) :
                 a \in DeclaredValues, b \in DeclaredValues }

\* workflows and completed runs handed to extractRespondNodeOutput: a
\* trigger, a plain node, a node named after the task manager, a respond node
ExtractNodeNames == << "Start", "Work", "Return to Task Manager", "Respond" >>
ExtractNode(name) ==
    Node(name,
         CASE name = "Start" -> ManualTriggerType
           [] name = "Respond" -> RespondType
           [] OTHER -> SetType,
         Undefined)
ExtractWorkflows ==
    { [nodes |-> [k \in DOMAIN names |-> ExtractNode(names[k])], active |-> FALSE] :
        names \in { << "Start", "Work", "Return to Task Manager", "Respond" >>,
                    << "Start", "Respond", "Return to Task Manager", "Work" >>,
                    << "Start", "Work", "Return to Task Manager" >>,
                    << "Start", "Work" >> } }

\* the items a node puts out carry the name of the node
ExtractItems(name) == << Item(Some([key |-> "from", value |-> name]), Undefined) >>

\* per node: not run, run with an empty first branch, run with items
ExtractRunKinds == { "none", "empty", "items" }
ExtractRunData(kinds) ==
    LET ran == SelectSeq(ExtractNodeNames, LAMBDA n : kinds[n] # "none") IN
    [k \in DOMAIN ran |->
        [name |-> ran[k],
         runs |-> << << IF kinds[ran[k]] = "items" THEN ExtractItems(ran[k])
                        ELSE <<>> >> >>]]
ExtractRuns ==
    { [resultError |-> FALSE, lastNodeExecuted |-> last, runData |-> ExtractRunData(kinds)] :
        last \in { Undefined } \cup { Some(ExtractNodeNames[k]) : k \in 2..4 },
        kinds \in [{ExtractNodeNames[k] : k \in 1..4} -> ExtractRunKinds] }

InitIo ==
    /\ pc = "idle"
    /\ tasks = <<>>
    /\ userPrompt = Undefined
    /\ results = <<>>
    /\ previousOutputData = Undefined
    /\ finalOutput = Undefined
    /\ currentTaskIndex = -1
    /\ currentWorkflowId = Undefined
    /\ workflow = Undefined
    /\ chainResult = Undefined
    /\ chainThrown = Undefined
    /\ calls = <<>>
    /\ legacyIndex = 0
    /\ currentOutput = Undefined
    /\ executedTasks = 0
    /\ inputData = Undefined
    /\ progressEvents = <<>>
    /\ legacyResult = Undefined
    /\ written = <<>>
    /\ otherRun = IdleRun
    /\ chats = [id \in ChatIds |-> Undefined]
    /\ nextChatId = 1
    /\ session = [u \in Users |-> IdleSession]
    /\ ioResult = Undefined
    /\ \/ /\ ioCall = "normalizeIoType"
          /\ ioArgs \in { [value |-> v] : v \in HintValues }
       \/ /\ ioCall = "resolveIoType"
          /\ ioArgs \in [taskValue : SmallHints, descriptionValue : DescriptionValues,
                         fallback : TaskIoType]
       \/ /\ ioCall = "results"
          /\ ioArgs \in [task : IoTasks, description : IoDescriptions]
       \/ /\ ioCall = "extractRespondNodeOutput"
          /\ ioArgs \in [run : ExtractRuns, workflow : ExtractWorkflows]

ApplyNormalizeIoType ==
    /\ ioCall = "normalizeIoType"
    /\ ioResult = Undefined
    /\ ioResult' = Some(normalizeIoType(ioArgs.value))
    /\ UNCHANGED << chainVars, legacyVars, ioCall, ioArgs, written, otherRun, chatVars >>

ApplyResolveIoType ==
    /\ ioCall = "resolveIoType"
    /\ ioResult = Undefined
    /\ ioResult' = Some(resolveIoType(ioArgs.taskValue, ioArgs.descriptionValue,
                                      ioArgs.fallback))
    /\ UNCHANGED << chainVars, legacyVars, ioCall, ioArgs, written, otherRun, chatVars >>

\* the record tasks.map builds for a task
ApplyNewResult ==
    /\ ioCall = "results"
    /\ ioResult = Undefined
    /\ ioResult' = Some(NewResult(0, ioArgs.task, ioArgs.description))
    /\ UNCHANGED << chainVars, legacyVars, ioCall, ioArgs, written, otherRun, chatVars >>

ApplyExtractRespondNodeOutput ==
    /\ ioCall = "extractRespondNodeOutput"
    /\ ioResult = Undefined
    /\ ioResult' = Some(extractRespondNodeOutput(ioArgs.run, ioArgs.workflow))
    /\ UNCHANGED << chainVars, legacyVars, ioCall, ioArgs, written, otherRun, chatVars >>

NextIo ==
    \/ ApplyNormalizeIoType
    \/ ApplyResolveIoType
    \/ ApplyNewResult
    \/ ApplyExtractRespondNodeOutput

SpecIo == InitIo /\ [][NextIo]_vars

(***************************************************************************)
(* Properties                                                              *)
(***************************************************************************)
Returned == IsDefined(chainResult)
Statuses == [k \in DOMAIN results |-> results[k].status]
TaskIndexes == 0 .. (Len(results) - 1)
CallSet == {calls[k] : k \in DOMAIN calls}
InLegacy == pc \in {"legacyFind", "legacyExecute", "legacyWaiting", "legacyDone"}

\* C1: when the task at index k is the one that fails, the returned result
\* has tasks[0..k-1] succeeded, tasks[k] failed, tasks[k+1..] pending, and
\* failedTask is the record tasks[k].
C1_FailurePartition ==
    \A k \in TaskIndexes :
        Result(k).status = "failed" =>
            /\ Returned
            /\ \A j \in TaskIndexes : j < k => Result(j).status = "succeeded"
            /\ \A j \in TaskIndexes : j > k => Result(j).status = "pending"
            /\ Val(chainResult).failedTask = Some(k)

C1_Witness ==
    /\ Returned
    /\ Statuses = << "succeeded", "failed", "pending" >>
    /\ Val(chainResult).failedTask = Some(1)

\* C2: for a non-empty task list in which every task succeeds, the result
\* has success = true, every entry of tasks succeeded, and as many entries
\* as the input list.
C2_AllSucceed ==
    /\ (Len(results) > 0 /\ \A k \in TaskIndexes : Result(k).status = "succeeded")
          => (Returned /\ Val(chainResult).success /\ Len(results) = Len(tasks))
    /\ (Returned /\ Val(chainResult).success)
          => (/\ Len(tasks) > 0
              /\ Len(results) = Len(tasks)
              /\ \A k \in TaskIndexes : Result(k).status = "succeeded")

C2_Witness ==
    /\ Returned
    /\ Val(chainResult).success
    /\ Len(tasks) = MaxTasks
    /\ \A k \in TaskIndexes : Result(k).status = "succeeded"

\* C3: in every returned result, success or failure at any index,
\* tasks.length is the number of planned tasks, tasks[i].index = i and
\* tasks[i].workflowId is the i-th planned task's workflowId.
C3_PositionalTotal ==
    Returned =>
        /\ Len(results) = Len(tasks)
        /\ \A k \in TaskIndexes :
              /\ Result(k).index = k
              /\ Result(k).workflowId = tasks[k + 1].workflowId

C3_Witness ==
    /\ Returned
    /\ ~Val(chainResult).success
    /\ Len(tasks) = 3
    /\ Result(0).status = "failed"
    /\ tasks[1].workflowId # tasks[2].workflowId
    /\ Result(2).index = 2

\* C4: a task's status only moves pending -> running -> succeeded or
\* pending -> running -> failed: it never leaves succeeded or failed, never
\* returns to pending or running, never becomes terminal without running.
StatusSteps == { << "pending", "running" >>, << "running", "succeeded" >>,
                 << "running", "failed" >> }
StatusBefore(k) == IF k \in DOMAIN results THEN results[k].status ELSE "pending"
C4_StatusForward ==
    [][ /\ DOMAIN results \subseteq DOMAIN results'
        /\ \A k \in DOMAIN results' :
              \/ results'[k].status = StatusBefore(k)
              \/ << StatusBefore(k), results'[k].status >> \in StatusSteps ]_vars

C4_Witness ==
    /\ Len(results) >= 3
    /\ Result(0).status = "succeeded"
    /\ Result(1).status = "succeeded"
    /\ Result(2).status = "failed"

\* C5: once the task at index k has failed, no collaborator call is made
\* for a task with a greater index, and the chain has returned with
\* success = false (both engines).
C5_FailFast ==
    /\ \A k \in TaskIndexes :
          Result(k).status = "failed" =>
              /\ pc = "done"
              /\ Returned /\ ~Val(chainResult).success
              /\ \A c \in CallSet : c.index <= k
    /\ (IsDefined(legacyResult) /\ ~Val(legacyResult).success) =>
              /\ pc = "legacyDone"
              /\ \A c \in CallSet : c.index <= Val(legacyResult).executedTasks

C5_Witness ==
    /\ Len(results) = 2
    /\ Result(0).status = "failed"
    /\ Result(0).error = Some(ErrWebhookStatus)
    /\ \E c \in CallSet : c.kind = "fetch" /\ c.index = 0

\* C6: a chain result has success = true iff no task failed; when a task
\* failed, success is false and failedTask is set; when success is true,
\* failedTask and error are absent.
C6_SuccessIffNoFailure ==
    /\ Returned =>
          /\ Val(chainResult).success <=>
                (\A k \in TaskIndexes : Result(k).status # "failed")
          /\ Val(chainResult).success =>
                (~IsDefined(Val(chainResult).failedTask) /\ ~IsDefined(Val(chainResult).error))
    /\ (\E k \in TaskIndexes : Result(k).status = "failed") =>
          (Returned /\ ~Val(chainResult).success /\ IsDefined(Val(chainResult).failedTask))

C6_Witness ==
    /\ Returned
    /\ ~Val(chainResult).success
    /\ Val(chainResult).failedTask = Some(2)
    /\ Val(chainResult).error = Some(ErrExecutionFailed)

\* the data of task i occurs in a seed (the data of a task is unique to it)
CarriesDataOf(seed, i) ==
    /\ IsDefined(seed)
    /\ \E k \in DOMAIN Val(seed) :
          \/ /\ IsDefined(Val(seed)[k].json)
             /\ Val(Val(seed)[k].json).value = OutVal(i)
          \/ Val(seed)[k].binary = Some(OutVal(i))

ExecutionCalls == {c \in CallSet : c.kind \in {"executeManually", "fetch"}}

\* the output and input types the engine in use works with for task i
OutputTypeOf(i) ==
    IF InLegacy
    THEN (IF tasks[i + 1].output = StrNoOutput THEN "noOutput" ELSE "JSON")
    ELSE Result(i).outputType
ExpectsInput(i) ==
    IF InLegacy
    THEN tasks[i + 1].input \in {StrJson, StrPng}
    ELSE Result(i).inputType \in {"JSON", "png"}

\* C7: if task i has output type noOutput, task i+1 never receives task i's
\* output as its seed, even when task i's run produced output data (both
\* engines).
C7_NoOutputNotThreaded ==
    \A c \in ExecutionCalls :
        (c.index >= 1 /\ OutputTypeOf(c.index - 1) = "noOutput")
            => ~CarriesDataOf(c.seed, c.index - 1)

\* C8: when task i has an output type other than noOutput and its run
\* yields primary JSON J, and task i+1 has input type JSON, the seed sent to
\* task i+1's workflow is J.
C8_JsonSeedIsPredecessorJson ==
    ~InLegacy =>
        \A c \in ExecutionCalls :
            (/\ c.index >= 1
             /\ Result(c.index).inputType = "JSON"
             /\ Result(c.index - 1).outputType # "noOutput"
             /\ IsDefined(Result(c.index - 1).outputPayload))
                => c.seed = Some(<< Item(Result(c.index - 1).outputPayload, Undefined) >>)

\* C9: a non-first task with input type JSON whose immediate predecessor
\* produced no JSON output fails at input preparation ('Previous task did
\* not return JSON data to pass forward'): it is never submitted for
\* execution with a seed, in particular not with one taken from the output
\* of an earlier task.
C9_NeverSeededFromEarlierTask ==
    ~InLegacy =>
        \A c \in ExecutionCalls :
            (/\ c.index >= 1
             /\ Result(c.index).inputType = "JSON"
             /\ Result(c.index - 1).status = "succeeded"
             /\ ~IsDefined(Result(c.index - 1).outputPayload))
                => ~IsDefined(c.seed)

\* C10: no task whose input type is JSON or png is submitted for execution
\* (manual run or webhook call) without a non-empty seed (both engines).
C10_InputTasksAreSeeded ==
    \A c \in ExecutionCalls : ExpectsInput(c.index) => HasLength(c.seed)

\* the prompt is missing, empty or whitespace-only
BlankPrompt(prompt) == ~IsDefined(prompt) \/ Trim(Val(prompt)) = <<>>

\* C11: when the first task's resolved input type is JSON and the user
\* prompt is missing, empty or whitespace-only, the chain fails at task 0
\* before any workflow is loaded: no findWorkflowForUser call and no
\* execution is made for that chain.
C11_BlankPromptFailsBeforeLoad ==
    (/\ ~InLegacy
     /\ Len(results) > 0
     /\ Result(0).inputType = "JSON"
     /\ BlankPrompt(userPrompt))
        => /\ Result(0).status = "failed"
           /\ \A c \in CallSet :
                 c.kind \notin {"findWorkflowForUser", "executeManually", "fetch"}

\* the workflow has a webhook node with a configured path and is not active
HasInactiveWebhook(wf) == IsDefined(getWebhookInfo(wf)) /\ ~wf.active

CallsFor(kind, i) == {p \in DOMAIN calls : calls[p].kind = kind /\ calls[p].index = i}

\* the workflow contains a webhook node with a configured path
HasWebhookPath(wf) ==
    \E k \in DOMAIN wf.nodes :
        /\ wf.nodes[k].type = WebhookType
        /\ IsDefined(wf.nodes[k].path)
        /\ Val(wf.nodes[k].path) # <<>>

C14_FailuresAreFailed ==
    [][ LET i == currentTaskIndex
            Failed == /\ results'[i + 1].status = "failed"
                      /\ IsDefined(chainResult')
                      /\ ~Val(chainResult').success
        IN /\ \A runData \in RunAnswers(i) :
                 ((~IsDefined(runData) \/ Val(runData).resultError)
                     /\ PostExecuteReturn(runData)) => Failed
           /\ \A response \in WebhookAnswers(i) :
                 (response.kind \in {"throws", "status"} /\ WebhookReturn(response))
                     => Failed
           /\ ExecuteManuallyFails(ErrStartFailed) => Failed ]_vars

C14_Witness ==
    /\ Len(results) = 2
    /\ Result(0).status = "succeeded"
    /\ Result(0).executionId = Some("webhook-execution")
    /\ Result(1).status = "failed"
    /\ Result(1).error = Some(ErrNoRunData)

\* C15: when findWorkflowForUser returns nothing for a task's workflowId,
\* that task fails with the not-found message, the chain aborts with
\* success = false, and no execution is started for that task (both
\* engines).
C15_NotFoundAborts ==
    [][ /\ LoadWorkflowFails(ErrNotFound) =>
              LET i == currentTaskIndex IN
              /\ results'[i + 1].status = "failed"
              /\ results'[i + 1].error = Some(ErrNotFound)
              /\ IsDefined(chainResult')
              /\ ~Val(chainResult').success
              /\ Val(chainResult').error = Some(ErrNotFound)
              /\ \A p \in DOMAIN calls' :
                    calls'[p].index = i =>
                        calls'[p].kind \notin {"executeManually", "fetch"}
        /\ LegacyFindFails(ErrNotFound) =>
              /\ IsDefined(legacyResult')
              /\ ~Val(legacyResult').success
              /\ Val(legacyResult').error = Some(ErrNotFound)
              /\ Val(legacyResult').failedTask = Some(tasks[legacyIndex + 1].workflowId)
              /\ \A p \in DOMAIN calls' :
                    calls'[p].index = legacyIndex =>
                        calls'[p].kind \notin {"executeManually", "fetch"} ]_vars

C15_Witness ==
    /\ Len(results) = 2
    /\ Result(0).status = "succeeded"
    /\ Result(1).status = "failed"
    /\ Result(1).error = Some(ErrNotFound)
    /\ Returned
    /\ CallsFor("executeManually", 1) = {}

\* C16: a task whose resolved output type is JSON or png and whose completed
\* run yields no output is failed and the chain aborts: no task with such
\* an output type is succeeded without an output.
C16_MissingOutputFails ==
    ~InLegacy =>
        \A k \in TaskIndexes :
            (Result(k).status = "succeeded" /\ Result(k).outputType \in {"JSON", "png"})
                => (IsDefined(Result(k).outputPayload) \/ HasLength(Result(k).rawOutput))

SucceededIndexes == {k \in TaskIndexes : Result(k).status = "succeeded"}
LastSucceeded == CHOOSE m \in SucceededIndexes : \A k \in SucceededIndexes : k <= m

\* C17: in every result returned by runTaskChain, finalOutput is the
\* outputPayload of the highest-index succeeded task when that task's output
\* type is not noOutput, and undefined when it is noOutput or when no task
\* succeeded.
C17_FinalOutput ==
    Returned =>
        Val(chainResult).finalOutput =
            IF SucceededIndexes = {} THEN Undefined
            ELSE IF Result(LastSucceeded).outputType = "noOutput" THEN Undefined
            ELSE Result(LastSucceeded).outputPayload

\* a single noInput/JSON task whose respond node returns J
C17_Witness ==
    /\ Returned
    /\ Val(chainResult).success
    /\ Len(results) = 1
    /\ Result(0).inputType = "noInput"
    /\ Result(0).outputType = "JSON"
    /\ Result(0).executionId = Some("execution")
    /\ Val(chainResult).finalOutput = Some(JsonOut(0))

\* C18: when the task at 0-based index k fails, the executedTasks value
\* reported to the caller is k, the number of tasks that succeeded (both
\* endpoints).
C18_ExecutedTasksIsFailedIndex ==
    /\ (Returned /\ ~Val(chainResult).success) =>
          \A k \in TaskIndexes :
              Result(k).status = "failed" =>
                  FinalResponse(Val(chainResult), results).executedTasks = k
    /\ (IsDefined(legacyResult) /\ ~Val(legacyResult).success) =>
          LegacyFinalResponse(Val(legacyResult)).executedTasks = legacyIndex

\* the second of three tasks fails
C18_Witness ==
    /\ Returned
    /\ Statuses = << "succeeded", "failed", "pending" >>
    /\ Result(1).error = Some(ErrExecutionFailed)
    /\ FinalResponse(Val(chainResult), results).executedTasks = 1

\* the pure function has been applied
Applied(fn) == ioCall = fn /\ ioResult # Undefined

\* value is a case variant of a spelling of the type, as written
IsCaseVariantOf(value, type) ==
    \E c \in Spellings(type) :
        /\ Len(value) = Len(c)
        /\ \A k \in DOMAIN c : value[k] \in {c[k], ToUpperChar(c[k])}

\* value is a case variant of a spelling of the type between whitespace
IsPaddedCaseVariantOf(value, type) ==
    \E l \in Paddings, r \in Paddings :
        /\ Len(value) >= Len(l) + Len(r)
        /\ SubSeq(value, 1, Len(l)) = l
        /\ SubSeq(value, Len(value) - Len(r) + 1, Len(value)) = r
        /\ IsCaseVariantOf(SubSeq(value, Len(l) + 1, Len(value) - Len(r)), type)

\* the type a hint stands for, if any (value is an optional string)
TypeOfHint(value) ==
    IF IsDefined(value) /\ \E type \in TaskIoType : IsPaddedCaseVariantOf(Val(value), type)
    THEN Some(CHOOSE type \in TaskIoType : IsPaddedCaseVariantOf(Val(value), type))
    ELSE Undefined

TypeOfUnpaddedHint(value) ==
    IF IsDefined(value) /\ \E type \in TaskIoType : IsCaseVariantOf(Val(value), type)
    THEN Some(CHOOSE type \in TaskIoType : IsCaseVariantOf(Val(value), type))
    ELSE Undefined

\* the declared type of a field of an optional workflowDescription
DeclaredType(description, field) ==
    IF IsDefined(description) THEN TypeOfHint(Val(description)[field]) ELSE Undefined

\* C19: resolution follows the precedence task hint, workflow-declared
\* type, fallback: a recognized hint wins whatever the other two arguments
\* are, without one the declared type is returned, with neither the
\* fallback, which for a result record is noInput for the input type and
\* JSON for the output type.
C19_Precedence ==
    /\ Applied("resolveIoType") =>
          LET hint == TypeOfHint(ioArgs.taskValue) IN
          Val(ioResult) = IF IsDefined(hint) THEN Val(hint)
                          ELSE IF IsDefined(ioArgs.descriptionValue)
                               THEN Val(ioArgs.descriptionValue)
                          ELSE ioArgs.fallback
    /\ Applied("results") =>
          LET task == ioArgs.task
              record == Val(ioResult)
              declaredIn == DeclaredType(ioArgs.description, "inputType")
              declaredOut == DeclaredType(ioArgs.description, "outputType")
          IN /\ IsDefined(TypeOfHint(task.input)) =>
                    record.inputType = Val(TypeOfHint(task.input))
             /\ IsDefined(TypeOfHint(task.output)) =>
                    record.outputType = Val(TypeOfHint(task.output))
             /\ (~IsDefined(TypeOfHint(task.input)) /\ IsDefined(declaredIn)) =>
                    record.inputType = Val(declaredIn)
             /\ (~IsDefined(TypeOfHint(task.output)) /\ IsDefined(declaredOut)) =>
                    record.outputType = Val(declaredOut)
             /\ (~IsDefined(TypeOfHint(task.input)) /\ ~IsDefined(declaredIn)) =>
                    record.inputType = "noInput"
             /\ (~IsDefined(TypeOfHint(task.output)) /\ ~IsDefined(declaredOut)) =>
                    record.outputType = "JSON"

\* resolve(undefined, 'noOutput', 'JSON') = 'noOutput'
C19_Witness ==
    /\ Applied("resolveIoType")
    /\ ioArgs = [taskValue |-> Undefined, descriptionValue |-> Some("noOutput"),
                 fallback |-> "JSON"]
    /\ ioResult = Some("noOutput")

\* C20 as stated: only the case variants of json, png, noinput/no-input and
\* nooutput/no-output are mapped to a type, every other string and the
\* empty and absent values are unresolved.
C20_OnlyCaseVariantsResolve ==
    Applied("normalizeIoType") => Val(ioResult) = TypeOfUnpaddedHint(ioArgs.value)

\* C20: normalization maps every case variant of json, png,
\* noinput/no-input and nooutput/no-output, with or without whitespace
\* around it, to JSON, png, noInput and noOutput, and every other string and
\* the empty and absent values to unresolved; an unrecognized task hint
\* falls through to the workflow-declared type, an unrecognized declared
\* type to the fallback, and the resolved types are always among the four
\* canonical values.
C20_Normalization ==
    /\ Applied("normalizeIoType") => Val(ioResult) = TypeOfHint(ioArgs.value)
    /\ Applied("results") =>
          LET task == ioArgs.task
              record == Val(ioResult)
              declaredIn == DeclaredType(ioArgs.description, "inputType")
              declaredOut == DeclaredType(ioArgs.description, "outputType")
          IN /\ record.inputType \in TaskIoType
             /\ record.outputType \in TaskIoType
             /\ ~IsDefined(TypeOfHint(task.input)) =>
                    record.inputType =
                        IF IsDefined(declaredIn) THEN Val(declaredIn) ELSE "noInput"
             /\ ~IsDefined(TypeOfHint(task.output)) =>
                    record.outputType =
                        IF IsDefined(declaredOut) THEN Val(declaredOut) ELSE "JSON"

C20_Witness ==
    /\ Applied("normalizeIoType")
    /\ ioArgs.value = Some(<<" ", "N","O","-","O","U","T","P","U","T", " ">>)
    /\ ioResult = Some(Some("noOutput"))

\* objects of the response stream
IsFinalObject(o) == "isFinal" \in DOMAIN o /\ o.isFinal
IsProgressObject(o) == "status" \in DOMAIN o /\ ~("isFinal" \in DOMAIN o)
TaskIndexOf(o) == IF "currentTask" \in DOMAIN o THEN o.currentTask - 1
                  ELSE o.currentTaskIndex
LastObject == Stream[Len(Stream)]
Ended == pc \in {"ended", "legacyEnded"}

\* C21: the progress objects of a request are written in task order: the
\* task index never decreases along the stream, so no object of task i+1
\* precedes an object of task i.
C21_ProgressInOrder ==
    \A p, q \in DOMAIN Stream :
        (p < q /\ IsProgressObject(Stream[p]) /\ IsProgressObject(Stream[q]))
            => TaskIndexOf(Stream[p]) <= TaskIndexOf(Stream[q])

C21_Witness ==
    /\ pc = "ended"
    /\ Len(written) = 3
    /\ IsProgressObject(written[1]) /\ written[1].currentTaskIndex = 0
    /\ IsProgressObject(written[2]) /\ written[2].currentTaskIndex = 1
    /\ IsFinalObject(written[3])

\* C22: after each status transition of a task, the transition to failed
\* included, a progress event is emitted that carries the index of the
\* task, the total, the workflow id and the new status.
C22_FailureIsReported ==
    (pc = "legacyDone" /\ IsDefined(legacyResult) /\ ~Val(legacyResult).success)
        => /\ Len(progressEvents) > 0
           /\ LET last == progressEvents[Len(progressEvents)] IN
              /\ last.status = "error"
              /\ last.currentTask = legacyIndex + 1
              /\ last.totalTasks = Len(tasks)
              /\ last.workflowId = tasks[legacyIndex + 1].workflowId

\* C23: progress is streamed live: the object reporting the completion of
\* task i is in the stream before the execution of task i+1 is started.
C23_CompletionWrittenBeforeNextStarts ==
    \A c \in ExecutionCalls :
        c.index > 0 =>
            \E p \in DOMAIN Stream :
                /\ IsProgressObject(Stream[p])
                /\ TaskIndexOf(Stream[p]) = c.index - 1
                /\ Stream[p].status \in {"completed", "succeeded"}

\* C24: a request writes at most one object with isFinal true, nothing
\* after it, and has written it as the last object whenever it has ended:
\* for a missing or empty task list, a success, a failure and an exception
\* from the chain service.
C24_OneFinalObject ==
    /\ Cardinality({p \in DOMAIN Stream : IsFinalObject(Stream[p])}) <= 1
    /\ \A p \in DOMAIN Stream : IsFinalObject(Stream[p]) => p = Len(Stream)
    /\ Ended <=> (Len(Stream) > 0 /\ IsFinalObject(LastObject))

C24_Witness ==
    /\ pc = "ended"
    /\ chainThrown = Some(ErrCollaborator)
    /\ Stream = << ErrorResponse(ErrCollaborator) >>

\* C25: whenever the chain succeeds and the resolved output type of the
\* last task is noOutput, the final object carries a summary.
C25_NoOutputGetsSummary ==
    (pc = "ended" /\ Returned /\ Val(chainResult).success
       /\ Result(Len(tasks) - 1).outputType = "noOutput")
        => "summary" \in DOMAIN LastObject

\* the final object of a successful request with a canned, non-empty summary
SoftSummary ==
    /\ Len(Stream) > 0
    /\ IsFinalObject(LastObject)
    /\ LastObject.success = TRUE
    /\ "summary" \in DOMAIN LastObject
    /\ LastObject.summary # ""
    /\ LastObject.summary \in {SummaryNoKey, SummaryDefault, SummaryFailed}

SummaryRequestFailed(answer) ==
    \/ answer.kind # "json"
    \/ ~IsDefined(answer.content)
    \/ Val(answer.content) = ""

\* C26: when the summary cannot be generated (no API key, an exception, a
\* non-2xx status, an unreadable body, no or empty content), the final
\* object still has success true and a non-empty canned summary.
C26_SummaryFailureIsSoft ==
    [][/\ \A answer \in SummaryAnswers :
             (/\ SummaryRequestFailed(answer)
              /\ \/ GenerateTaskSummaryReturn(answer)
                 \/ LegacyGenerateTaskSummaryReturn(answer))
                 => SoftSummary'
       /\ (ExecuteTasksRespond(FALSE) /\ WantsSummary(Val(chainResult).success))
             => SoftSummary'
       /\ (LegacyExecuteTasksRespond(FALSE) /\ WantsSummary(Val(legacyResult).success))
             => SoftSummary']_vars

C26_Witness ==
    /\ pc = "ended"
    /\ Len(written) > 0
    /\ IsFinalObject(written[Len(written)])
    /\ written[Len(written)].success
    /\ "summary" \in DOMAIN written[Len(written)]
    /\ written[Len(written)].summary = SummaryFailed

\* C27: runTaskChain returns a TaskChainResult for every input, the empty
\* task list and a failing getWorkflowDescriptions included, and never
\* throws.
C27_NeverThrows == pc # "thrown" /\ chainThrown = Undefined

C29_OneRunning ==
    /\ Cardinality({k \in TaskIndexes : Result(k).status = "running"}) <= 1
    /\ \A k \in TaskIndexes :
          (k > 0 /\ Result(k).status # "pending") => Result(k - 1).status = "succeeded"
    /\ \A p \in DOMAIN progressEvents :
          LET e == progressEvents[p] IN
          (e.status = "starting" /\ e.currentTask > 1)
              => \E q \in 1 .. (p - 1) :
                    /\ progressEvents[q].status = "completed"
                    /\ progressEvents[q].currentTask = e.currentTask - 1

C29_Witness ==
    /\ pc = "waiting"
    /\ Statuses = << "succeeded", "running", "pending" >>

\* a step that suspends the executing run and resumes the other one with
\* every local as it was when that run was suspended
ResumesIntact ==
    /\ otherRun' = ThisRun
    /\ << pc', tasks', userPrompt', results', previousOutputData', finalOutput',
          currentTaskIndex', currentWorkflowId', workflow', chainResult',
          chainThrown', calls' >>
         = << otherRun.pc, otherRun.tasks, otherRun.userPrompt, otherRun.results,
              otherRun.previousOutputData, otherRun.finalOutput,
              otherRun.currentTaskIndex, otherRun.currentWorkflowId,
              otherRun.workflow, otherRun.chainResult, otherRun.chainThrown,
              otherRun.calls >>
    /\ << legacyIndex', currentOutput', executedTasks', inputData', progressEvents',
          legacyResult' >>
         = << otherRun.legacyIndex, otherRun.currentOutput, otherRun.executedTasks,
              otherRun.inputData, otherRun.progressEvents, otherRun.legacyResult >>

NodesWithOutput(IsCandidate(_)) ==
    {k \in DOMAIN ioArgs.workflow.nodes :
        /\ IsCandidate(ioArgs.workflow.nodes[k])
        /\ HasLength(getNodeRunOutput(ioArgs.run, ioArgs.workflow.nodes[k].name))}
RespondNodesWithOutput == NodesWithOutput(LAMBDA n : n.type = RespondType)
NamedNodesWithOutput ==
    NodesWithOutput(LAMBDA n : NameIncludesTaskOrReturn(n.name) \/ TypeIncludesTask(n.type))
LastExecutedOutput ==
    IF IsDefined(ioArgs.run.lastNodeExecuted)
    THEN getNodeRunOutput(ioArgs.run, Val(ioArgs.run.lastNodeExecuted))
    ELSE Undefined

\* C31: when no respond-type node yields output and both the last executed
\* node and a node named after the task/return convention have non-empty
\* output, the extractor returns the output of the last executed node.
C31_LastExecutedBeforeNamed ==
    (/\ Applied("extractRespondNodeOutput")
     /\ RespondNodesWithOutput = {}
     /\ HasLength(LastExecutedOutput)
     /\ NamedNodesWithOutput # {})
        => Val(ioResult) = LastExecutedOutput

\* C32: whenever a respond-type node of the workflow has a non-empty output
\* in the run, the extractor returns the output of a respond-type node,
\* whichever node was executed last and whatever the other nodes put out.
C32_RespondNodeWins ==
    (Applied("extractRespondNodeOutput") /\ RespondNodesWithOutput # {})
        => \E k \in RespondNodesWithOutput :
              Val(ioResult) = getNodeRunOutput(ioArgs.run, ioArgs.workflow.nodes[k].name)

C32_Witness ==
    /\ Applied("extractRespondNodeOutput")
    /\ RespondNodesWithOutput # {}
    /\ ioArgs.run.lastNodeExecuted = Some("Work")
    /\ HasLength(LastExecutedOutput)
    /\ NamedNodesWithOutput # {}
    /\ Val(ioResult) = Some(ExtractItems("Respond"))

\* the submissions of runTaskChain by executeManually
ManualCalls == {c \in CallSet : c.kind = "executeManually"}

\* C33: for a first task on the manual path with resolved input type JSON
\* and a non-blank user prompt P, the seed sent to the workflow and the
\* recorded inputPayload are both { prompt: P }, P as given.
C33_PromptSeed ==
    ~InLegacy =>
        \A c \in ManualCalls :
            (c.index = 0 /\ Result(0).inputType = "JSON" /\ ~BlankPrompt(userPrompt))
                => /\ c.seed = Some(<< Item(Some([key |-> "prompt",
                                                   value |-> Val(userPrompt)]),
                                            Undefined) >>)
                   /\ Result(0).inputPayload = Some([key |-> "prompt",
                                                     value |-> Val(userPrompt)])

\* C34: a task with resolved input type png is submitted for execution
\* only with a seed that carries a binary attachment of the threaded
\* previous output; without one, as for a first task, it fails.
C34_PngNeedsBinary ==
    ~InLegacy =>
        \A c \in ExecutionCalls :
            Result(c.index).inputType = "png"
                => /\ c.index > 0
                   /\ HasLength(c.seed)
                   /\ IsDefined(Val(c.seed)[1].binary)

\* the record of a task as tasks.map creates it, as far as the run fills it
AsCreated(r) ==
    /\ r.status = "pending"
    /\ ~r.started
    /\ ~r.finished
    /\ r.executionId = Undefined
    /\ r.inputPayload = Undefined
    /\ r.outputPayload = Undefined
    /\ r.rawOutput = Undefined
    /\ r.error = Undefined

\* C36: when the chain fails at task k, every record after k is as
\* created at the start of the chain, and no step changes the record of a
\* task that has succeeded.
C36_FailureFrame ==
    [][~InLegacy' =>
          /\ \A k \in DOMAIN results :
                results[k].status = "succeeded" => results'[k] = results[k]
          /\ \A k \in DOMAIN results' :
                results'[k].status = "failed" =>
                    \A j \in DOMAIN results' :
                        j > k => /\ AsCreated(results'[j])
                                 /\ results'[j] = results[j]]_vars

C36_Witness ==
    /\ Returned
    /\ Statuses = << "succeeded", "failed", "pending" >>
    /\ IsDefined(Result(0).outputPayload)
    /\ AsCreated(Result(2))

\* C37: a result with success false carries the message of the failed
\* record, whose status is failed and whose index is the progress cursor;
\* a result with success true has the cursor at the number of tasks.
C37_FailureCarriesMessage ==
    Returned =>
        LET result == Val(chainResult) IN
        IF result.success
        THEN /\ result.progress.currentTaskIndex = result.progress.totalTasks
             /\ result.progress.totalTasks = Len(tasks)
        ELSE /\ IsDefined(result.error)
             /\ IsDefined(result.failedTask)
             /\ LET failed == Result(Val(result.failedTask)) IN
                /\ failed.error = result.error
                /\ failed.status = "failed"
                /\ failed.index = result.progress.currentTaskIndex

C37_Witness ==
    /\ Returned
    /\ ~Val(chainResult).success
    /\ Val(chainResult).error = Some(ErrExecutionFailed)
    /\ Val(chainResult).progress.currentTaskIndex = 1
    /\ Result(1).error = Some(ErrExecutionFailed)

\* C35: the output payload of a task whose resolved output type is
\* noOutput is not propagated to the caller: it is neither the output of
\* the final response nor the data of one of its toolResults.
C35_NoOutputNotPropagated ==
    (pc = "ended" /\ Returned) =>
        \A k \in TaskIndexes :
            (Result(k).outputType = "noOutput" /\ IsDefined(Result(k).outputPayload))
                => /\ "output" \in DOMAIN LastObject
                        => LastObject.output # Result(k).outputPayload
                   /\ \A t \in DOMAIN LastObject.toolResults :
                        LastObject.toolResults[t].data # Val(Result(k).outputPayload)


(***************************************************************************)
(* The chat store: isolation between users                                 *)
(***************************************************************************)
\* the chat is stored and belongs to another user than u
IsForeign(u, chatId) ==
    /\ chatId \in ChatIds
    /\ IsDefined(chats[chatId])
    /\ Val(chats[chatId]).userId # u

\* this step answers a request of u
Answers(u) ==
    /\ session'[u] # session[u]
    /\ session'[u].stage \in ResponseStages

\* C39 as stated: every request of a user that names the chat of another
\* user is answered with not-found and leaves that chat unchanged.
C39_ForeignRequestNotFound ==
    [][\A u \in Users :
          Answers(u) /\ IsForeign(u, session'[u].chatId)
              => /\ session'[u].stage = "notFound"
                 /\ chats'[session'[u].chatId] = chats[session'[u].chatId]]_vars

\* C39: no step of a user changes the chat of another user; getChat and
\* listChats answer with the user's own chats only; a request that names the
\* chat of another user is answered with not-found, except a saveChat that
\* looks no chat up: one without a valid message, answered with the id and
\* title of the request, and a summarization request, answered with the
\* completion, a bad request or an error.
C39_OwnChatsOnly ==
    [][\A u \in Users :
          /\ \A c \in ChatIds :
                 IsForeign(u, c) /\ session'[u] # session[u] => chats'[c] = chats[c]
          /\ Answers(u) /\ IsForeign(u, session'[u].chatId)
                 => /\ session'[u].stage \in {"notFound", "soft", "badRequest",
                                              "error", "answer"}
                    /\ session'[u].stage # "notFound"
                           => /\ session[u].stage \in {"summarize"} \cup {"idle"}
                                                      \cup ResponseStages
                              /\ chats' = chats
          /\ session'[u].stage = "chat"
                 => /\ ~IsForeign(u, session'[u].chatId)
                    /\ session'[u].messages = Val(chats[session'[u].chatId]).messages
          /\ session'[u].stage = "list"
                 => \A chat \in session'[u].chats : Val(chats'[chat.id]).userId = u]_vars

\* a user was answered not-found for the stored chat of another user
C39_Witness ==
    /\ session["u2"] = NotFound(1)
    /\ IsDefined(chats[1])
    /\ Val(chats[1]).userId = "u1"
    /\ session["u1"].stage = "chat"

(***************************************************************************)
(* Termination of runTaskChain                                             *)
(***************************************************************************)
\* the tasks whose workflow lookup was started
Attempted == { calls[k].index : k \in { j \in DOMAIN calls :
                                          calls[j].kind = "findWorkflowForUser" } }

\* C38: when every collaborator call is answered, a started run ends, and a
\* run whose loop has started returns a result; at most tasks.length tasks
\* are attempted. While the wait for a completion is not answered the run
\* has not returned, no later task was started, and the run goes on only by
\* the answer of the wait.
C38_Terminates ==
    /\ (pc = "descriptions") ~> (pc \in {"done", "thrown"})
    /\ (pc = "loadWorkflow") ~> Returned
    /\ [](/\ Cardinality(Attempted) <= Len(tasks)
          /\ Attempted \subseteq 0 .. (Len(tasks) - 1)
          /\ Cardinality(CallsFor("findWorkflowForUser", currentTaskIndex)) <= 1)
    /\ [](pc = "waiting"
            => /\ ~Returned
               /\ \A k \in DOMAIN calls : calls[k].index <= currentTaskIndex)
    /\ [][pc = "waiting" /\ pc' # "waiting"
            => \/ PostExecuteThrows
               \/ \E runData \in RunAnswers(currentTaskIndex) :
                      PostExecuteReturn(runData)]_vars

\* a run of the longest task list has returned after attempting every task
C38_Witness ==
    /\ Returned
    /\ Len(tasks) = MaxTasks
    /\ Val(chainResult).success
    /\ Attempted = 0 .. (MaxTasks - 1)
====
